---- MODULE Spec2Model ----
(***************************************************************************)
(* State manager storage adapters (puzzleio_state_manager).                *)
(*                                                                         *)
(* Four drivers implement the StorageAdapter contract (save, load,         *)
(* getStackSize, history): MemoryStorage, FileSystemStorage, MongoStorage  *)
(* and RedisStorage.  A behaviour runs one driver (chosen in Init) against *)
(* its backend.  Callers are the processes of Procs; a call is split at    *)
(* the await points of the driver's code, so that calls of two callers     *)
(* interleave exactly where the JavaScript event loop lets them.           *)
(***************************************************************************)
EXTENDS Integers, Sequences, FiniteSets, TLC

\* ------------------------------------------------------------------ bounds
\* a save is not invoked once the backend holds MaxSaves snapshots
MaxSaves == 3
\* the wall clock (milliseconds) runs from 0 to MaxClock
MaxClock == 3
\* callers that do not await each other issue at most MaxCalls calls, and so
\* do a caller whose calls take time, a program that calls through two driver
\* instances and a program followed from the construction of its driver
MaxCalls == 2
\* the identifiers shortid's generate() can produce (all non-empty)
FlowIds == {"F1", "F2"}
\* the snapshots callers save (JSON-serializable values)
States == {100, 101}
\* the callers
Procs == {1, 2}

Backends == {"memory", "fileSystem", "mongo", "redis"}

\* ------------------------------------------------------------ JS values
\* an omitted (undefined) flowId argument
Undefined == "<undefined>"
\* an omitted (undefined) index argument
NoIndex == -1
\* a flowId argument passed as the empty string
EmptyId == ""
\* the flowId arguments callers pass: omitted, empty, or an identifier
ArgIds == {Undefined, EmptyId} \cup FlowIds
\* the index arguments callers pass to load
Indexes == {NoIndex, 0, 1, 2}

\* JavaScript truthiness of a flowId argument: !flowId
Falsy(flowId) == flowId \in {Undefined, EmptyId}

\* the index used as it was passed, without "if (!index) { index = 0; }"
NormIndexAsPassed(index) == index

\* index = index || 0 : "if (!index) { index = 0; }"
NormIndex(index) == IF index = NoIndex \/ index = 0 THEN 0 ELSE index

\* JSON.stringify of a snapshot (numbers print in decimal)
JSONstringify(v) == ToString(v)

\* JSON.parse of a text written by JSON.stringify
JSONparse(text) == CHOOSE v \in States : JSONstringify(v) = text

\* Array.prototype.reverse
RECURSIVE Reverse(_)
Reverse(s) == IF s = <<>> THEN <<>> ELSE Append(Reverse(Tail(s)), Head(s))

\* texts.map(text => JSON.parse(text))
ParseAll(texts) == [k \in 1 .. Len(texts) |-> JSONparse(texts[k])]

\* --------------------------------------------------- results of a call
IdRes(id) == [kind |-> "id", str |-> id, num |-> 0, seq |-> <<>>]
VoidRes == [kind |-> "void", str |-> "", num |-> 0, seq |-> <<>>]
ValueRes(v) == [kind |-> "value", str |-> "", num |-> v, seq |-> <<>>]
NullRes == [kind |-> "null", str |-> "", num |-> 0, seq |-> <<>>]
UndefinedRes == [kind |-> "undefined", str |-> "", num |-> 0, seq |-> <<>>]
SizeRes(n) == [kind |-> "size", str |-> "", num |-> n, seq |-> <<>>]
ListRes(s) == [kind |-> "list", str |-> "", num |-> 0, seq |-> s]
ErrorRes(code) == [kind |-> "error", str |-> code, num |-> 0, seq |-> <<>>]
NoRes == [kind |-> "none", str |-> "", num |-> 0, seq |-> <<>>]

\* errors.noFlowId
E_NO_FLOW_ID == "E_NO_FLOW_ID"
\* TypeError: this.state[flowId] is undefined
TYPE_ERROR == "TypeError"
\* writeFileSync into a directory that does not exist
ENOENT == "ENOENT"
\* MongoStorage.save: effect count not as expected
E_SAVE_FAILED == "E_SAVE_FAILED"
\* errors.notFound of the filesystem driver
E_NOT_FOUND == "E_NOT_FOUND"
\* errors.notConnected of the Mongo and Redis drivers
E_NOT_CONNECTED == "E_NOT_CONNECTED"
\* errors.notInitialized of the Mongo driver
E_NOT_INITIALIZED == "E_NOT_INITIALIZED"
\* the error with which a client that is not connected rejects a command
CLIENT_ERROR == "ClientError"

\* MissingArgumentError(name)
MissingArgument(name) == "MissingArgumentError: " \o name

\* the client argument of a constructor, when one is passed
Client == "<client>"
\* the configuration argument of a constructor, when one is passed
CustomConfig == "<custom>"
\* the configuration of an instance built without configuration argument
DefaultConfig == "<default>"

\* a constructor that makes an instance whether or not it is given a client
ConstructorAnyClient(driver, client, config) ==
    [made |-> TRUE,
     error |-> "",
     config |-> IF config = Undefined \/ driver = "memory"
                THEN DefaultConfig ELSE config]

\* new MongoStorage(mongoClient?, config?), new RedisStorage(redisClient?,
\* config?), new FileSystemStorage(config?), new MemoryStorage(): the instance
\* made, or the error thrown
Constructor(driver, client, config) ==
    IF driver \in {"mongo", "redis"} /\ client = Undefined
    THEN [made |-> FALSE,
          error |-> MissingArgument(IF driver = "mongo" THEN "mongoClient"
                                                       ELSE "redisClient"),
          config |-> Undefined]
    ELSE [made |-> TRUE,
          error |-> "",
          config |-> IF config = Undefined \/ driver = "memory"
                     THEN DefaultConfig ELSE config]

\* no constructor was called yet
NotBuilt == [made |-> FALSE, error |-> "", config |-> Undefined]

VARIABLES
    backend,    \* the driver under use
    concurrent, \* TRUE: callers do not await each other
    ticking,    \* FALSE: the calls are so fast that only timers see time pass
    lockstep,   \* TRUE: the four drivers are given the same calls, one by one
    separate,   \* TRUE: each caller calls through a driver instance of its own
    constructs, \* TRUE: the behaviour is that of a program from the construction
                \* of its driver on
    built,      \* what the constructor of the driver produced
    obs,        \* per driver: the call of the current round, with its result
    ready,      \* the root directory exists / the client is connected
    dropped,    \* codes of the rejected promises that nobody holds
    ncalls,     \* number of calls issued, where MaxCalls bounds them
    now,        \* wall clock, Date.now()
    memState,   \* MemoryStorage.state
    memOther,   \* the state of a second MemoryStorage instance
    fsDirs,     \* the flow directories under rootDir
    mongoDocs,  \* the documents of the collection
    redisDb,    \* the keys under the prefix
    pc,         \* position of each caller inside its call
    call,       \* the call each caller is in
    loc,        \* local variables of the call in progress
    res,        \* the last completed call of each caller, with its result
    log,        \* the latest completed calls, as far as a scenario follows them
    saved       \* per flow: the snapshots stored by save calls, newest first

storeVars == <<memState, fsDirs, mongoDocs, redisDb>>
\* the variables that no step of a call changes
baseVars == <<backend, concurrent, ticking, lockstep, separate, constructs, built, obs, ready>>
\* the variables that no step of a call on the driver changes: the second
\* MemoryStorage instance is not the driver
modeVars == <<baseVars, memOther>>
vars == <<backend, concurrent, ticking, lockstep, separate, constructs, built, obs, ready, dropped,
          ncalls, now, memState, memOther, fsDirs, mongoDocs, redisDb,
          pc, call, loc, res, log, saved>>

\* ------------------------------------------------------ backend states
\* MemoryStateModel; exists = FALSE is an absent key of the map
NoEntry == [exists |-> FALSE, stack |-> <<>>, createdAt |-> 0, updatedAt |-> 0]

\* a directory listing without entries
NoFiles == [n \in {} |-> ""]
\* exists = FALSE : no directory of that name under rootDir
NoDir == [exists |-> FALSE, files |-> NoFiles]

\* exists = FALSE : no document with that _id
NoDoc == [exists |-> FALSE, stack |-> <<>>, hasCreatedAt |-> FALSE,
          createdAt |-> 0, updatedAt |-> 0]

\* a string key that is not set holds Nil
Nil == "<nil>"
NoKeys == [marker |-> Nil, createdAt |-> Nil, updatedAt |-> Nil, stack |-> <<>>]

NoCall == [op |-> "none", state |-> 0, flowId |-> Undefined, index |-> NoIndex]
NoLoc == [flowId |-> Undefined, isNew |-> FALSE, currentDate |-> 0,
          total |-> 0, onEmpty |-> FALSE]
NoDone == [op |-> "none", state |-> 0, flowId |-> Undefined, index |-> NoIndex,
           res |-> NoRes, onEmpty |-> FALSE]

\* ------------------------------------------------ scenarios of the log
\* what a completed call was: a creating save, an appending save, a read
KindOf(d) ==
    IF d.op = "save" /\ Falsy(d.flowId) /\ d.res.kind = "id"
        THEN <<"create", NoIndex>>
    ELSE IF d.op = "save" /\ ~Falsy(d.flowId) /\ d.res.kind \in {"id", "void"}
        THEN <<"append", NoIndex>>
    ELSE IF d.op = "load" THEN <<"load", d.index>>
    ELSE IF d.op \in {"getStackSize", "history", "initialize"} THEN <<d.op, NoIndex>>
    ELSE <<"failed", NoIndex>>

\* the flow a completed call was about
FlowOf(d) == IF KindOf(d)[1] = "create" THEN d.res.str ELSE d.flowId

KCreate == <<"create", NoIndex>>
KAppend == <<"append", NoIndex>>
KLoad(i) == <<"load", i>>
KSize == <<"getStackSize", NoIndex>>
KHistory == <<"history", NoIndex>>

\* the call sequences (all on one flow) the log follows to their end
Scenarios ==
    { <<KCreate, KAppend, KLoad(NoIndex), KLoad(1), KSize, KHistory>>,
      <<KCreate, KSize>>,
      <<KCreate, KHistory>>,
      <<KCreate, KLoad(NoIndex)>>,
      <<KHistory, KHistory>>,
      <<KHistory, KAppend, KHistory>> }
    \cup { <<KLoad(i), KLoad(i)>> : i \in Indexes }

IsPrefix(s, t) == Len(s) <= Len(t) /\ \A k \in 1 .. Len(s) : s[k] = t[k]

Followed(s) ==
    \/ Len(s) <= 1
    \/ /\ \A k \in 1 .. Len(s) : FlowOf(s[k]) = FlowOf(s[1])
       /\ \E t \in Scenarios : IsPrefix([k \in 1 .. Len(s) |-> KindOf(s[k])], t)

\* the longest suffix of the call sequence s that is the start of a scenario
RECURSIVE Track(_)
Track(s) == IF Followed(s) THEN s ELSE Track(Tail(s))

\* ------------------------------------------- what the backend holds now
\* number of snapshots the active backend holds for a flow
StoredSize(id) ==
    CASE backend = "memory" -> Len(memState[id].stack)
      [] backend = "fileSystem" -> Cardinality(DOMAIN fsDirs[id].files)
      [] backend = "mongo" -> Len(mongoDocs[id].stack)
      [] backend = "redis" -> Len(redisDb[id].stack)

\* nothing was ever written to the active backend
StoreEmpty ==
    CASE backend = "memory" -> \A id \in FlowIds : memState[id] = NoEntry
      [] backend = "fileSystem" -> \A id \in FlowIds : fsDirs[id] = NoDir
      [] backend = "mongo" -> \A id \in FlowIds : mongoDocs[id] = NoDoc
      [] backend = "redis" -> \A id \in FlowIds : redisDb[id] = NoKeys

\* ----------------------------------------------------- calls and callers
\* the calls are counted against MaxCalls
Counted == concurrent \/ ticking \/ separate \/ constructs

\* a synchronous "while (!isUnique)" loop that finds no free identifier
\* never yields: nothing else of the process runs any more
Blocked == \E q \in Procs : pc[q] = "spin"

\* caller p may issue a call: it awaits its own calls; without concurrency a
\* single caller issues the calls one after the other, or the program issues
\* them one after the other through the instances of the callers; of the
\* callers that do not await each other, caller 1 is the one that issues the
\* first call
CanInvoke(p) ==
    /\ built.made
    /\ ~Blocked
    /\ pc[p] = "idle"
    /\ IF concurrent THEN ncalls < MaxCalls /\ (p = 1 \/ ncalls >= 1)
                     ELSE (p = 1 \/ separate) /\ \A q \in Procs : pc[q] = "idle"
    /\ Counted => ncalls < MaxCalls

\* number of snapshots the active backend holds for the flows ids
RECURSIVE StoredTotal(_)
StoredTotal(ids) ==
    IF ids = {} THEN 0
    ELSE LET id == CHOOSE i \in ids : TRUE
         IN  StoredSize(id) + StoredTotal(ids \ {id})

\* the save is within the bound of the model
InBound == StoredTotal(FlowIds) < MaxSaves

\* the error ensureDatabaseIsReady() rejects a promise with
NotReadyCode == IF backend = "fileSystem" THEN E_NOT_FOUND ELSE E_NOT_CONNECTED

\* the operations that throw E_NO_FLOW_ID before ensureDatabaseIsReady()
Reads == {"load", "getStackSize", "history"}

\* the call c reaches ensureDatabaseIsReady() while the backend is not ready
EnsureFails(c) ==
    /\ backend # "memory"
    /\ ~ready
    /\ c.op \in Reads => ~Falsy(c.flowId)

\* ensureDatabaseIsReady(): "if (!ready) { Promise.reject(error); }" creates a
\* rejected promise and lets the caller go on
EnsureDatabaseIsReady(c) ==
    dropped' = IF EnsureFails(c) THEN dropped \cup {NotReadyCode} ELSE dropped

\* the call c of p is suspended at an await, to continue at label
Suspend(p, c, l, label) ==
    /\ EnsureDatabaseIsReady(c)
    /\ pc' = [pc EXCEPT ![p] = label]
    /\ call' = [call EXCEPT ![p] = c]
    /\ loc' = [loc EXCEPT ![p] = l]
    /\ res' = [res EXCEPT ![p] = NoDone]
    /\ ncalls' = IF Counted THEN ncalls + 1 ELSE ncalls
    /\ UNCHANGED log

\* the call continues from one await to the next, at label
Resume(p, l, label) ==
    /\ pc' = [pc EXCEPT ![p] = label]
    /\ loc' = [loc EXCEPT ![p] = l]
    /\ UNCHANGED <<ncalls, call, res, log, dropped>>

\* the promise of call c settles with r
Settle(p, c, onEmpty, r) ==
    LET d == [op |-> c.op, state |-> c.state, flowId |-> c.flowId,
              index |-> c.index, res |-> r, onEmpty |-> onEmpty]
    IN  /\ IF pc[p] = "idle" THEN EnsureDatabaseIsReady(c) ELSE UNCHANGED dropped
        /\ pc' = [pc EXCEPT ![p] = "idle"]
        /\ call' = [call EXCEPT ![p] = NoCall]
        /\ loc' = [loc EXCEPT ![p] = NoLoc]
        /\ res' = [res EXCEPT ![p] = d]
        /\ ncalls' = IF Counted /\ pc[p] = "idle" THEN ncalls + 1 ELSE ncalls
        /\ log' = IF concurrent \/ lockstep \/ separate
                   THEN log ELSE Track(Append(log, d))

\* a save that returned: its snapshot is the newest of the flow
Record(id, state) == saved' = [saved EXCEPT ![id] = <<state>> \o @]

SaveCall(state, flowId) ==
    [op |-> "save", state |-> state, flowId |-> flowId, index |-> NoIndex]
LoadCall(flowId, index) ==
    [op |-> "load", state |-> 0, flowId |-> flowId, index |-> index]
SizeCall(flowId) ==
    [op |-> "getStackSize", state |-> 0, flowId |-> flowId, index |-> NoIndex]
HistoryCall(flowId) ==
    [op |-> "history", state |-> 0, flowId |-> flowId, index |-> NoIndex]
InitializeCall ==
    [op |-> "initialize", state |-> 0, flowId |-> Undefined, index |-> NoIndex]

\* the calls of the contract that reach the client of the driver
ClientCalls ==
    {SaveCall(state, flowId) : state \in States, flowId \in ArgIds}
    \cup {LoadCall(flowId, index) : flowId \in FlowIds, index \in Indexes}
    \cup {SizeCall(flowId) : flowId \in FlowIds}
    \cup {HistoryCall(flowId) : flowId \in FlowIds}

\* a command given to a client that is not connected: the client rejects it,
\* or keeps it queued for a connection that does not come
NotConnected(p, c) ==
    /\ ~ready
    /\ CanInvoke(p)
    /\ \/ Settle(p, c, FALSE, ErrorRes(CLIENT_ERROR))
       \/ Suspend(p, c, NoLoc, "offline")
    /\ UNCHANGED <<modeVars, now, storeVars, saved>>

\* ============================================================ MemoryStorage
\* initialize(): an empty function; no driver keeps a note of the call
MemoryInitialize(p) ==
    /\ backend = "memory"
    /\ CanInvoke(p)
    /\ Settle(p, InitializeCall, FALSE, VoidRes)
    /\ UNCHANGED <<modeVars, now, storeVars, saved>>

\* generateFlowId: the identifiers the loop can end with
MemoryFreeIds == {id \in FlowIds : ~memState[id].exists}

\* stack.push(state); updatedAt = currentDate
MemoryPush(entry, state, currentDate) ==
    [entry EXCEPT !.stack = Append(@, state), !.updatedAt = currentDate]

\* a save that creates the flow of an identifier it does not know
MemorySaveUpsert(p, state, flowId) ==
    /\ backend = "memory"
    /\ CanInvoke(p)
    /\ InBound
    /\ UNCHANGED <<modeVars, now, fsDirs, mongoDocs, redisDb>>
    /\ IF Falsy(flowId)
       THEN /\ UNCHANGED <<memState, saved>>
            /\ \/ \E id \in MemoryFreeIds :
                    Suspend(p, SaveCall(state, flowId),
                            [NoLoc EXCEPT !.flowId = id, !.isNew = TRUE,
                                          !.onEmpty = StoreEmpty],
                            "memCreate")
               \/ /\ MemoryFreeIds = {}
                  /\ Suspend(p, SaveCall(state, flowId), NoLoc, "spin")
       ELSE IF ~memState[flowId].exists
       THEN /\ memState' = [memState EXCEPT ![flowId] =
                   MemoryPush([exists |-> TRUE, stack |-> <<>>,
                               createdAt |-> now, updatedAt |-> now], state, now)]
            /\ Record(flowId, state)
            /\ Settle(p, SaveCall(state, flowId), FALSE, IdRes(flowId))
       ELSE /\ memState' = [memState EXCEPT ![flowId] = MemoryPush(@, state, now)]
            /\ Record(flowId, state)
            /\ Settle(p, SaveCall(state, flowId), FALSE, IdRes(flowId))

\* save(state, flowId?) up to its first await
MemorySave(p, state, flowId) ==
    /\ backend = "memory"
    /\ CanInvoke(p)
    /\ InBound
    /\ UNCHANGED <<modeVars, now, fsDirs, mongoDocs, redisDb>>
    /\ IF Falsy(flowId)
       THEN /\ UNCHANGED <<memState, saved>>
            /\ \/ \E id \in MemoryFreeIds :
                    Suspend(p, SaveCall(state, flowId),
                            [NoLoc EXCEPT !.flowId = id, !.isNew = TRUE,
                                          !.onEmpty = StoreEmpty],
                            "memCreate")
               \/ /\ MemoryFreeIds = {}
                  /\ Suspend(p, SaveCall(state, flowId), NoLoc, "spin")
       ELSE IF ~memState[flowId].exists
       THEN /\ UNCHANGED <<memState, saved>>
            /\ Settle(p, SaveCall(state, flowId), FALSE, ErrorRes(TYPE_ERROR))
       ELSE /\ memState' = [memState EXCEPT ![flowId] = MemoryPush(@, state, now)]
            /\ Record(flowId, state)
            /\ Settle(p, SaveCall(state, flowId), FALSE, IdRes(flowId))

\* save(state) after "await this.generateFlowId()"
MemorySaveCreate(p) ==
    /\ backend = "memory"
    /\ ~Blocked
    /\ pc[p] = "memCreate"
    /\ LET id == loc[p].flowId
           fresh == [exists |-> TRUE, stack |-> <<>>,
                     createdAt |-> now, updatedAt |-> now]
       IN  /\ memState' = [memState EXCEPT
                              ![id] = MemoryPush(fresh, call[p].state, now)]
           /\ Record(id, call[p].state)
           /\ Settle(p, call[p], loc[p].onEmpty, IdRes(id))
    /\ UNCHANGED <<modeVars, now, fsDirs, mongoDocs, redisDb>>

\* what load(flowId, index?) returns: state.stack.reverse()[index]
MemoryLoadResult(flowId, index) ==
    IF Falsy(flowId) THEN ErrorRes(E_NO_FLOW_ID)
    ELSE IF ~memState[flowId].exists THEN NullRes
    ELSE LET reversed == Reverse(memState[flowId].stack)
             i == NormIndex(index)
         IN  IF 0 <= i /\ i < Len(reversed) THEN ValueRes(reversed[i + 1])
                                            ELSE UndefinedRes

\* load(flowId, index?)
MemoryLoad(p, flowId, index) ==
    /\ backend = "memory"
    /\ CanInvoke(p)
    /\ UNCHANGED <<modeVars, now, fsDirs, mongoDocs, redisDb, saved>>
    /\ IF Falsy(flowId)
       THEN UNCHANGED memState
       ELSE IF ~memState[flowId].exists
       THEN UNCHANGED memState
       ELSE memState' = [memState EXCEPT ![flowId].stack = Reverse(@)]
    /\ Settle(p, LoadCall(flowId, index), FALSE, MemoryLoadResult(flowId, index))

\* getStackSize(flowId) reading state.stack.length without the "if (!state)"
\* return: the read of an absent key throws
MemoryGetStackSizeUnguarded(p, flowId) ==
    /\ backend = "memory"
    /\ CanInvoke(p)
    /\ UNCHANGED <<modeVars, now, storeVars, saved>>
    /\ Settle(p, SizeCall(flowId), FALSE,
              IF Falsy(flowId) THEN ErrorRes(E_NO_FLOW_ID)
              ELSE IF ~memState[flowId].exists THEN ErrorRes(TYPE_ERROR)
              ELSE SizeRes(Len(memState[flowId].stack)))

\* getStackSize(flowId)
MemoryGetStackSize(p, flowId) ==
    /\ backend = "memory"
    /\ CanInvoke(p)
    /\ UNCHANGED <<modeVars, now, storeVars, saved>>
    /\ Settle(p, SizeCall(flowId), FALSE,
              IF Falsy(flowId) THEN ErrorRes(E_NO_FLOW_ID)
              ELSE IF ~memState[flowId].exists THEN SizeRes(0)
              ELSE SizeRes(Len(memState[flowId].stack)))

\* history(flowId)
MemoryHistory(p, flowId) ==
    /\ backend = "memory"
    /\ CanInvoke(p)
    /\ UNCHANGED <<modeVars, now, fsDirs, mongoDocs, redisDb, saved>>
    /\ IF Falsy(flowId)
       THEN /\ UNCHANGED memState
            /\ Settle(p, HistoryCall(flowId), FALSE, ErrorRes(E_NO_FLOW_ID))
       ELSE IF ~memState[flowId].exists
       THEN /\ UNCHANGED memState
            /\ Settle(p, HistoryCall(flowId), FALSE, ListRes(<<>>))
       ELSE LET reversed == Reverse(memState[flowId].stack)
            IN  /\ memState' = [memState EXCEPT ![flowId].stack = reversed]
                /\ Settle(p, HistoryCall(flowId), FALSE, ListRes(reversed))

\* ======================================================== FileSystemStorage
\* readdirSync: the entry names in ascending order.  The names are the
\* decimal millisecond timestamps, all of the same number of digits, so the
\* order of the names is the order of the numbers.
RECURSIVE Readdir(_)
Readdir(names) ==
    IF names = {} THEN <<>>
    ELSE LET last == CHOOSE n \in names : \A m \in names : m <= n
         IN  Append(Readdir(names \ {last}), last)

\* writeFileSync(path, content): creates the file or replaces its content
WriteFile(files, name, content) ==
    [n \in (DOMAIN files) \cup {name} |-> IF n = name THEN content ELSE files[n]]

\* generateFlowId: the identifiers the loop can end with
FileSystemFreeIds == {id \in FlowIds : ~fsDirs[id].exists}

\* initialize(): ensureDatabaseIsReady() and nothing else
FileSystemInitialize(p) ==
    /\ backend = "fileSystem"
    /\ CanInvoke(p)
    /\ Settle(p, InitializeCall, FALSE, VoidRes)
    /\ UNCHANGED <<modeVars, now, storeVars, saved>>

\* a creating save that takes the identifier drawn without the uniqueness check
FileSystemSaveAnyId(p, state, flowId) ==
    /\ backend = "fileSystem"
    /\ CanInvoke(p)
    /\ InBound
    /\ now < MaxClock
    /\ UNCHANGED <<modeVars, now, memState, mongoDocs, redisDb, saved>>
    /\ IF ~ready
       THEN /\ UNCHANGED fsDirs
            /\ Settle(p, SaveCall(state, flowId), FALSE, ErrorRes(ENOENT))
       ELSE IF Falsy(flowId)
       THEN \/ \E id \in FlowIds :
                 /\ fsDirs' = [fsDirs EXCEPT ![id] =
                        [exists |-> TRUE,
                         files |-> WriteFile(NoFiles, now, JSONstringify(state))]]
                 /\ Suspend(p, SaveCall(state, flowId),
                            [NoLoc EXCEPT !.flowId = id, !.isNew = TRUE,
                                          !.currentDate = now,
                                          !.onEmpty = StoreEmpty],
                            "fsTimer")
            \/ /\ FileSystemFreeIds = {}
               /\ UNCHANGED fsDirs
               /\ Suspend(p, SaveCall(state, flowId), NoLoc, "spin")
       ELSE IF ~fsDirs[flowId].exists
       THEN /\ UNCHANGED fsDirs
            /\ Settle(p, SaveCall(state, flowId), FALSE, ErrorRes(ENOENT))
       ELSE /\ fsDirs' = [fsDirs EXCEPT ![flowId].files =
                             WriteFile(@, now, JSONstringify(state))]
            /\ Suspend(p, SaveCall(state, flowId),
                       [NoLoc EXCEPT !.flowId = flowId, !.currentDate = now],
                       "fsTimer")

\* save(state, flowId?): the promise executor runs without interruption; under
\* a root directory that does not exist no identifier is in use, and mkdirSync
\* and writeFileSync throw
FileSystemSave(p, state, flowId) ==
    /\ backend = "fileSystem"
    /\ CanInvoke(p)
    /\ InBound
    /\ now < MaxClock
    /\ UNCHANGED <<modeVars, now, memState, mongoDocs, redisDb, saved>>
    /\ IF ~ready
       THEN /\ UNCHANGED fsDirs
            /\ Settle(p, SaveCall(state, flowId), FALSE, ErrorRes(ENOENT))
       ELSE IF Falsy(flowId)
       THEN \/ \E id \in FileSystemFreeIds :
                 /\ fsDirs' = [fsDirs EXCEPT ![id] =
                        [exists |-> TRUE,
                         files |-> WriteFile(NoFiles, now, JSONstringify(state))]]
                 /\ Suspend(p, SaveCall(state, flowId),
                            [NoLoc EXCEPT !.flowId = id, !.isNew = TRUE,
                                          !.currentDate = now,
                                          !.onEmpty = StoreEmpty],
                            "fsTimer")
            \/ /\ FileSystemFreeIds = {}
               /\ UNCHANGED fsDirs
               /\ Suspend(p, SaveCall(state, flowId), NoLoc, "spin")
       ELSE IF ~fsDirs[flowId].exists
       THEN /\ UNCHANGED fsDirs
            /\ Settle(p, SaveCall(state, flowId), FALSE, ErrorRes(ENOENT))
       ELSE /\ fsDirs' = [fsDirs EXCEPT ![flowId].files =
                             WriteFile(@, now, JSONstringify(state))]
            /\ Suspend(p, SaveCall(state, flowId),
                       [NoLoc EXCEPT !.flowId = flowId, !.currentDate = now],
                       "fsTimer")

\* setTimeout(() => resolve(flowId), 1): at least one millisecond later
FileSystemSaveResolve(p) ==
    /\ backend = "fileSystem"
    /\ ~Blocked
    /\ pc[p] = "fsTimer"
    /\ now > loc[p].currentDate
    /\ Record(loc[p].flowId, call[p].state)
    /\ Settle(p, call[p], loc[p].onEmpty, IdRes(loc[p].flowId))
    /\ UNCHANGED <<modeVars, now, storeVars>>

\* what load(flowId, index?) returns: the content of states[states.length - 1];
\* the index is not used
FileSystemLoadResult(flowId, index) ==
    IF Falsy(flowId) THEN ErrorRes(E_NO_FLOW_ID)
    ELSE IF ~fsDirs[flowId].exists THEN NullRes
    ELSE LET states == Readdir(DOMAIN fsDirs[flowId].files)
         IN  IF states = <<>> THEN ErrorRes(TYPE_ERROR)
             ELSE ValueRes(JSONparse(fsDirs[flowId].files[states[Len(states)]]))

\* load(flowId, index?)
FileSystemLoad(p, flowId, index) ==
    /\ backend = "fileSystem"
    /\ CanInvoke(p)
    /\ UNCHANGED <<modeVars, now, storeVars, saved>>
    /\ Settle(p, LoadCall(flowId, index), FALSE, FileSystemLoadResult(flowId, index))

\* getStackSize(flowId) of a driver whose instances each resolve a root
\* directory of their own: the directories written through the instance of
\* caller 1 are not under the root of another instance
FileSystemGetStackSizeOwnRoot(p, flowId) ==
    /\ backend = "fileSystem"
    /\ CanInvoke(p)
    /\ UNCHANGED <<modeVars, now, storeVars, saved>>
    /\ Settle(p, SizeCall(flowId), FALSE,
              IF Falsy(flowId) THEN ErrorRes(E_NO_FLOW_ID)
              ELSE IF p # 1 \/ ~fsDirs[flowId].exists THEN SizeRes(0)
              ELSE SizeRes(Len(Readdir(DOMAIN fsDirs[flowId].files))))

\* getStackSize(flowId)
FileSystemGetStackSize(p, flowId) ==
    /\ backend = "fileSystem"
    /\ CanInvoke(p)
    /\ UNCHANGED <<modeVars, now, storeVars, saved>>
    /\ Settle(p, SizeCall(flowId), FALSE,
              IF Falsy(flowId) THEN ErrorRes(E_NO_FLOW_ID)
              ELSE IF ~fsDirs[flowId].exists THEN SizeRes(0)
              ELSE SizeRes(Len(Readdir(DOMAIN fsDirs[flowId].files))))

\* history(flowId)
FileSystemHistory(p, flowId) ==
    /\ backend = "fileSystem"
    /\ CanInvoke(p)
    /\ UNCHANGED <<modeVars, now, storeVars, saved>>
    /\ Settle(p, HistoryCall(flowId), FALSE,
              IF Falsy(flowId) THEN ErrorRes(E_NO_FLOW_ID)
              ELSE IF ~fsDirs[flowId].exists THEN ListRes(<<>>)
              ELSE LET stateFiles == Reverse(Readdir(DOMAIN fsDirs[flowId].files))
                       contents == [k \in 1 .. Len(stateFiles) |->
                                       fsDirs[flowId].files[stateFiles[k]]]
                   IN  ListRes(ParseAll(contents)))

\* ============================================================= MongoStorage
\* the creating command seeding the array empty, as MemoryStorage.save does
\* before its push
MongoSetCommandEmptySeed(doc, state, currentDate) ==
    [exists |-> TRUE, stack |-> <<>>, hasCreatedAt |-> TRUE,
     createdAt |-> currentDate, updatedAt |-> currentDate]

\* updateOne({_id}, {$set: {stack: [state], createdAt, updatedAt}}, upsert)
MongoSetCommand(doc, state, currentDate) ==
    [exists |-> TRUE, stack |-> <<state>>, hasCreatedAt |-> TRUE,
     createdAt |-> currentDate, updatedAt |-> currentDate]

\* updateOne({_id}, {$push: {stack: {$each: [state], $position: 0}},
\*                   $set: {updatedAt}}, upsert)
MongoPushCommand(doc, state, currentDate) ==
    [doc EXCEPT !.exists = TRUE, !.stack = <<state>> \o @,
                !.updatedAt = currentDate]

\* the counts updateOne reports for replacing doc by updated
UpsertedCount(doc, updated) == IF doc.exists THEN 0 ELSE 1
ModifiedCount(doc, updated) == IF doc.exists /\ updated # doc THEN 1 ELSE 0

\* initialize(): ensureDatabaseIsReady() and nothing else
MongoInitialize(p) ==
    /\ backend = "mongo"
    /\ CanInvoke(p)
    /\ Settle(p, InitializeCall, FALSE, VoidRes)
    /\ UNCHANGED <<modeVars, now, storeVars, saved>>

\* a call that reaches the collection while the client is not connected
MongoNotConnected(p, c) ==
    /\ backend = "mongo"
    /\ NotConnected(p, c)

\* save(state, flowId?) up to its first await
MongoSave(p, state, flowId) ==
    /\ backend = "mongo"
    /\ ready
    /\ CanInvoke(p)
    /\ InBound
    /\ UNCHANGED <<modeVars, now, storeVars, saved>>
    /\ IF Falsy(flowId)
       THEN Suspend(p, SaveCall(state, flowId),
                    [NoLoc EXCEPT !.isNew = TRUE, !.currentDate = now,
                                  !.onEmpty = StoreEmpty],
                    "mongoGen")
       ELSE Suspend(p, SaveCall(state, flowId),
                    [NoLoc EXCEPT !.flowId = flowId, !.currentDate = now],
                    "mongoUpdate")

\* a generateFlowId that gives up when the identifier it drew is in use
MongoGenerateFlowIdOnce(p) ==
    /\ backend = "mongo"
    /\ pc[p] = "mongoGen"
    /\ \E flowId \in FlowIds :
         LET isUnique == ~mongoDocs[flowId].exists
         IN  IF isUnique
             THEN Resume(p, [loc[p] EXCEPT !.flowId = flowId], "mongoUpdate")
             ELSE Settle(p, call[p], loc[p].onEmpty, ErrorRes(E_SAVE_FAILED))
    /\ UNCHANGED <<modeVars, now, storeVars, saved>>

\* generateFlowId: one turn of the loop, with its countDocuments query
MongoGenerateFlowId(p) ==
    /\ backend = "mongo"
    /\ pc[p] = "mongoGen"
    /\ \E flowId \in FlowIds :
         LET isUnique == ~mongoDocs[flowId].exists
         IN  IF isUnique
             THEN Resume(p, [loc[p] EXCEPT !.flowId = flowId], "mongoUpdate")
             ELSE UNCHANGED <<ncalls, pc, call, loc, res, log, dropped>>
    /\ UNCHANGED <<modeVars, now, storeVars, saved>>

\* save: the updateOne query and the check of its result
MongoSaveUpdate(p) ==
    /\ backend = "mongo"
    /\ pc[p] = "mongoUpdate"
    /\ LET flowId == loc[p].flowId
           isNew == loc[p].isNew
           doc == mongoDocs[flowId]
           updated == IF isNew
                      THEN MongoSetCommand(doc, call[p].state, loc[p].currentDate)
                      ELSE MongoPushCommand(doc, call[p].state, loc[p].currentDate)
           failed == \/ isNew /\ UpsertedCount(doc, updated) # 1
                     \/ ~isNew /\ ModifiedCount(doc, updated) # 1
       IN  /\ mongoDocs' = [mongoDocs EXCEPT ![flowId] = updated]
           /\ IF failed
              THEN /\ UNCHANGED saved
                   /\ Settle(p, call[p], loc[p].onEmpty, ErrorRes(E_SAVE_FAILED))
              ELSE /\ Record(flowId, call[p].state)
                   /\ Settle(p, call[p], loc[p].onEmpty,
                             IF isNew THEN IdRes(flowId) ELSE VoidRes)
    /\ UNCHANGED <<modeVars, now, memState, fsDirs, redisDb>>

\* the projection {$slice: n}: the first n elements of the array
MongoSlice(stack, n) == SubSeq(stack, 1, IF Len(stack) < n THEN Len(stack) ELSE n)

\* what load(flowId, index?) returns: stack[0] of
\* find({_id}).project({stack: {$slice: 1}}); the index is not used
MongoLoadResult(flowId, index) ==
    IF Falsy(flowId) THEN ErrorRes(E_NO_FLOW_ID)
    ELSE LET slice == MongoSlice(mongoDocs[flowId].stack, 1)
         IN  IF ~mongoDocs[flowId].exists \/ Len(slice) = 0
             THEN NullRes
             ELSE ValueRes(slice[1])

\* load(flowId, index?)
MongoLoad(p, flowId, index) ==
    /\ backend = "mongo"
    /\ ready \/ Falsy(flowId)
    /\ CanInvoke(p)
    /\ UNCHANGED <<modeVars, now, storeVars, saved>>
    /\ Settle(p, LoadCall(flowId, index), FALSE, MongoLoadResult(flowId, index))

\* getStackSize(flowId): aggregate $match, $project $size
MongoGetStackSize(p, flowId) ==
    /\ backend = "mongo"
    /\ ready \/ Falsy(flowId)
    /\ CanInvoke(p)
    /\ UNCHANGED <<modeVars, now, storeVars, saved>>
    /\ Settle(p, SizeCall(flowId), FALSE,
              IF Falsy(flowId) THEN ErrorRes(E_NO_FLOW_ID)
              ELSE IF ~mongoDocs[flowId].exists THEN SizeRes(0)
              ELSE SizeRes(Len(mongoDocs[flowId].stack)))

\* history(flowId): find({_id}).project({stack: 1})
MongoHistory(p, flowId) ==
    /\ backend = "mongo"
    /\ ready \/ Falsy(flowId)
    /\ CanInvoke(p)
    /\ UNCHANGED <<modeVars, now, storeVars, saved>>
    /\ Settle(p, HistoryCall(flowId), FALSE,
              IF Falsy(flowId) THEN ErrorRes(E_NO_FLOW_ID)
              ELSE IF ~mongoDocs[flowId].exists THEN ListRes(<<>>)
              ELSE ListRes(mongoDocs[flowId].stack))

\* ============================================================= RedisStorage
\* LINDEX key index (a negative index counts from the tail: -1 is the last)
Lindex(list, index) ==
    LET k == IF index < 0 THEN Len(list) + index ELSE index
    IN  IF 0 <= k /\ k < Len(list) THEN list[k + 1] ELSE Nil

\* a range that leaves the element at stop out
LrangeExclusive(list, stop) ==
    LET last == IF stop < 0 THEN Len(list) + stop ELSE stop
        to == IF last > Len(list) THEN Len(list) ELSE last
    IN  SubSeq(list, 1, to)

\* LRANGE key 0 stop (a negative stop counts from the tail: -1 is the last)
Lrange(list, stop) ==
    LET last == IF stop < 0 THEN Len(list) + stop ELSE stop
        to == IF last + 1 > Len(list) THEN Len(list) ELSE last + 1
    IN  SubSeq(list, 1, to)

\* JSON.parse of a reply: JSON.parse(null) is null
RedisParse(reply) == IF reply = Nil THEN NullRes ELSE ValueRes(JSONparse(reply))

\* initialize() up to "await promisify(this.connection.info).bind(...)", which
\* awaits the bound function, not a command
RedisInitialize(p) ==
    /\ backend = "redis"
    /\ CanInvoke(p)
    /\ Suspend(p, InitializeCall, NoLoc, "redisInit")
    /\ UNCHANGED <<modeVars, now, storeVars, saved>>

\* initialize() after its await
RedisInitializeDone(p) ==
    /\ backend = "redis"
    /\ pc[p] = "redisInit"
    /\ Settle(p, call[p], FALSE, VoidRes)
    /\ UNCHANGED <<modeVars, now, storeVars, saved>>

\* a call that reaches the client while it is not connected
RedisNotConnected(p, c) ==
    /\ backend = "redis"
    /\ NotConnected(p, c)

\* save(state, flowId?) up to its first await
RedisSave(p, state, flowId) ==
    /\ backend = "redis"
    /\ ready
    /\ CanInvoke(p)
    /\ InBound
    /\ UNCHANGED <<modeVars, now, storeVars, saved>>
    /\ IF Falsy(flowId)
       THEN Suspend(p, SaveCall(state, flowId),
                    [NoLoc EXCEPT !.isNew = TRUE, !.onEmpty = StoreEmpty],
                    "redisGen")
       ELSE Suspend(p, SaveCall(state, flowId),
                    [NoLoc EXCEPT !.flowId = flowId], "redisUpdatedAt")

\* generateFlowId: one turn of the loop, with its EXISTS <prefix>:<id>:_
RedisGenerateFlowId(p) ==
    /\ backend = "redis"
    /\ pc[p] = "redisGen"
    /\ \E flowId \in FlowIds :
         LET isUnique == redisDb[flowId].marker = Nil
         IN  IF isUnique
             THEN Resume(p, [loc[p] EXCEPT !.flowId = flowId], "redisMarker")
             ELSE UNCHANGED <<ncalls, pc, call, loc, res, log, dropped>>
    /\ UNCHANGED <<modeVars, now, storeVars, saved>>

\* save: SET <prefix>:<id>:_ true
RedisSaveMarker(p) ==
    /\ backend = "redis"
    /\ pc[p] = "redisMarker"
    /\ redisDb' = [redisDb EXCEPT ![loc[p].flowId].marker = "true"]
    /\ Resume(p, loc[p], "redisCreatedAt")
    /\ UNCHANGED <<modeVars, now, memState, fsDirs, mongoDocs, saved>>

\* save: SET <prefix>:<id>:createdAt Date.now()
RedisSaveCreatedAt(p) ==
    /\ backend = "redis"
    /\ pc[p] = "redisCreatedAt"
    /\ redisDb' = [redisDb EXCEPT ![loc[p].flowId].createdAt = ToString(now)]
    /\ Resume(p, loc[p], "redisUpdatedAt")
    /\ UNCHANGED <<modeVars, now, memState, fsDirs, mongoDocs, saved>>

\* save: SET <prefix>:<id>:updatedAt Date.now()
RedisSaveUpdatedAt(p) ==
    /\ backend = "redis"
    /\ pc[p] = "redisUpdatedAt"
    /\ redisDb' = [redisDb EXCEPT ![loc[p].flowId].updatedAt = ToString(now)]
    /\ Resume(p, loc[p], "redisPush")
    /\ UNCHANGED <<modeVars, now, memState, fsDirs, mongoDocs, saved>>

\* the push of a save whose key name leaves the flow identifier out: one list
\* for all the flows
RedisSavePushSharedKey(p) ==
    /\ backend = "redis"
    /\ pc[p] = "redisPush"
    /\ redisDb' = [id \in FlowIds |->
                      [redisDb[id] EXCEPT !.stack =
                          <<JSONstringify(call[p].state)>> \o @]]
    /\ Record(loc[p].flowId, call[p].state)
    /\ Settle(p, call[p], loc[p].onEmpty,
              IF loc[p].isNew THEN IdRes(loc[p].flowId) ELSE VoidRes)
    /\ UNCHANGED <<modeVars, now, memState, fsDirs, mongoDocs>>

\* save: LPUSH <prefix>:<id>:stack JSON.stringify(state), and the return
RedisSavePush(p) ==
    /\ backend = "redis"
    /\ pc[p] = "redisPush"
    /\ redisDb' = [redisDb EXCEPT ![loc[p].flowId].stack =
                      <<JSONstringify(call[p].state)>> \o @]
    /\ Record(loc[p].flowId, call[p].state)
    /\ Settle(p, call[p], loc[p].onEmpty,
              IF loc[p].isNew THEN IdRes(loc[p].flowId) ELSE VoidRes)
    /\ UNCHANGED <<modeVars, now, memState, fsDirs, mongoDocs>>

\* what load(flowId, index?) returns: JSON.parse of
\* LINDEX <prefix>:<id>:stack index
RedisLoadResult(flowId, index) ==
    IF Falsy(flowId) THEN ErrorRes(E_NO_FLOW_ID)
    ELSE RedisParse(Lindex(redisDb[flowId].stack, NormIndex(index)))

\* load(flowId, index?)
RedisLoad(p, flowId, index) ==
    /\ backend = "redis"
    /\ ready \/ Falsy(flowId)
    /\ CanInvoke(p)
    /\ UNCHANGED <<modeVars, now, storeVars, saved>>
    /\ Settle(p, LoadCall(flowId, index), FALSE, RedisLoadResult(flowId, index))

\* getStackSize(flowId) without the "if (!flowId)" throw: LLEN of the key
\* <prefix>::stack, which is never written, is 0
RedisGetStackSizeUnchecked(p, flowId) ==
    /\ backend = "redis"
    /\ ready \/ Falsy(flowId)
    /\ CanInvoke(p)
    /\ UNCHANGED <<modeVars, now, storeVars, saved>>
    /\ Settle(p, SizeCall(flowId), FALSE,
              IF Falsy(flowId) THEN SizeRes(0)
              ELSE SizeRes(Len(redisDb[flowId].stack)))

\* getStackSize(flowId): LLEN <prefix>:<id>:stack
RedisGetStackSize(p, flowId) ==
    /\ backend = "redis"
    /\ ready \/ Falsy(flowId)
    /\ CanInvoke(p)
    /\ UNCHANGED <<modeVars, now, storeVars, saved>>
    /\ Settle(p, SizeCall(flowId), FALSE,
              IF Falsy(flowId) THEN ErrorRes(E_NO_FLOW_ID)
              ELSE SizeRes(Len(redisDb[flowId].stack)))

\* history(flowId) up to the reply of its getStackSize
RedisHistory(p, flowId) ==
    /\ backend = "redis"
    /\ ready \/ Falsy(flowId)
    /\ CanInvoke(p)
    /\ UNCHANGED <<modeVars, now, storeVars, saved>>
    /\ IF Falsy(flowId)
       THEN Settle(p, HistoryCall(flowId), FALSE, ErrorRes(E_NO_FLOW_ID))
       ELSE Suspend(p, HistoryCall(flowId),
                    [NoLoc EXCEPT !.flowId = flowId,
                                  !.total = Len(redisDb[flowId].stack)],
                    "redisRange")

\* history: LRANGE <prefix>:<id>:stack 0 totalItems-1, and the JSON.parse map
RedisHistoryRange(p) ==
    /\ backend = "redis"
    /\ pc[p] = "redisRange"
    /\ Settle(p, call[p], FALSE,
              ListRes(ParseAll(Lrange(redisDb[loc[p].flowId].stack,
                                      loc[p].total - 1))))
    /\ UNCHANGED <<modeVars, now, storeVars, saved>>

\* ==================================================================== clock
\* a millisecond passes
Tick ==
    /\ ~Blocked
    /\ ticking \/ \E p \in Procs : pc[p] = "fsTimer"
    /\ now < MaxClock
    /\ now' = now + 1
    /\ UNCHANGED <<modeVars, dropped, ncalls, storeVars, pc, call, loc, res, log, saved>>

\* ============================================================ specifications
\* the backends hold nothing
EmptyStores ==
    /\ now = 0
    /\ memState = [id \in FlowIds |-> NoEntry]
    /\ memOther = [id \in FlowIds |-> NoEntry]
    /\ fsDirs = [id \in FlowIds |-> NoDir]
    /\ mongoDocs = [id \in FlowIds |-> NoDoc]
    /\ redisDb = [id \in FlowIds |-> NoKeys]
    /\ saved = [id \in FlowIds |-> <<>>]

\* no call was made yet
InitCallers ==
    /\ obs = [b \in Backends |-> NoDone]
    /\ dropped = {}
    /\ ncalls = 0
    /\ pc = [p \in Procs |-> "idle"]
    /\ call = [p \in Procs |-> NoCall]
    /\ loc = [p \in Procs |-> NoLoc]
    /\ res = [p \in Procs |-> NoDone]
    /\ log = <<>>

\* the driver is constructed with a client (where it takes one) and without
\* configuration
Built ==
    /\ constructs = FALSE
    /\ built = Constructor(backend, Client, Undefined)

InitStores ==
    /\ backend \in Backends
    /\ ready \in BOOLEAN
    /\ backend = "memory" => ready
    /\ InitCallers
    /\ EmptyStores

\* the flows a single caller created before the callers stopped awaiting each
\* other: none, save(100) -> F1, or save(100) -> F1 and then save(101) -> F2
SeedFlows == {<<>>, <<"F1">>, <<"F1", "F2">>}

\* the k-th created flow holds the snapshot 99 + k, saved in millisecond k - 1
\* by the filesystem driver (whose save takes a millisecond) and in
\* millisecond 0 by the others
SeedState(k) == 99 + k
SeedTime(k) == IF backend = "fileSystem" THEN k - 1 ELSE 0

\* the position of id among the created flows, 0 if it was not created
SeedIndex(seed, id) ==
    IF \E k \in 1 .. Len(seed) : seed[k] = id
    THEN CHOOSE k \in 1 .. Len(seed) : seed[k] = id
    ELSE 0

\* the backend of the driver in use after the creating saves of seed
SeededStores(seed) ==
    LET at(id) == SeedIndex(seed, id)
        held(b, id) == backend = b /\ at(id) > 0
    IN  /\ now = IF backend = "fileSystem" THEN Len(seed) ELSE 0
        /\ memOther = [id \in FlowIds |-> NoEntry]
        /\ memState = [id \in FlowIds |->
              IF held("memory", id)
              THEN MemoryPush([exists |-> TRUE, stack |-> <<>>,
                               createdAt |-> SeedTime(at(id)),
                               updatedAt |-> SeedTime(at(id))],
                              SeedState(at(id)), SeedTime(at(id)))
              ELSE NoEntry]
        /\ fsDirs = [id \in FlowIds |->
              IF held("fileSystem", id)
              THEN [exists |-> TRUE,
                    files |-> WriteFile(NoFiles, SeedTime(at(id)),
                                        JSONstringify(SeedState(at(id))))]
              ELSE NoDir]
        /\ mongoDocs = [id \in FlowIds |->
              IF held("mongo", id)
              THEN MongoSetCommand(NoDoc, SeedState(at(id)), SeedTime(at(id)))
              ELSE NoDoc]
        /\ redisDb = [id \in FlowIds |->
              IF held("redis", id)
              THEN [marker |-> "true",
                    createdAt |-> ToString(SeedTime(at(id))),
                    updatedAt |-> ToString(SeedTime(at(id))),
                    stack |-> <<JSONstringify(SeedState(at(id)))>>]
              ELSE NoKeys]
        /\ saved = [id \in FlowIds |->
              IF at(id) > 0 THEN <<SeedState(at(id))>> ELSE <<>>]

\* one caller, every call awaited before the next is issued
Init ==
    /\ InitStores
    /\ Built
    /\ ticking = FALSE
    /\ concurrent = FALSE
    /\ lockstep = FALSE
    /\ separate = FALSE

\* one caller whose calls take time: the clock may advance at any await
InitTick ==
    /\ InitStores
    /\ Built
    /\ ticking = TRUE
    /\ concurrent = FALSE
    /\ lockstep = FALSE
    /\ separate = FALSE

\* the drivers that keep the flows outside the instance: in a directory, a
\* collection, the keys of a server
SharedBackends == {"fileSystem", "mongo", "redis"}

\* one program calling through two instances of such a driver, bound to the
\* same root directory, collection or key prefix; every call is awaited
InitShared ==
    /\ InitStores
    /\ Built
    /\ backend \in SharedBackends
    /\ ticking = FALSE
    /\ concurrent = FALSE
    /\ lockstep = FALSE
    /\ separate = TRUE

\* callers that do not await each other, on an empty backend or on one that
\* holds flows created before
InitConc ==
    /\ backend \in Backends
    /\ ready \in BOOLEAN
    /\ backend = "memory" => ready
    /\ InitCallers
    /\ Built
    /\ ticking = FALSE
    /\ \E seed \in SeedFlows : (seed # <<>> => ready) /\ SeededStores(seed)
    /\ concurrent = TRUE
    /\ lockstep = FALSE
    /\ separate = FALSE

\* the single caller gives every call to the four drivers in turn, each on its
\* own backend, starting with the in-memory driver
InitAll ==
    /\ InitStores
    /\ Built
    /\ ticking = FALSE
    /\ concurrent = FALSE
    /\ lockstep = TRUE
    /\ separate = FALSE
    /\ backend = "memory"

Next ==
    \/ \E p \in Procs : MemoryInitialize(p)
    \/ \E p \in Procs : FileSystemInitialize(p)
    \/ \E p \in Procs : MongoInitialize(p)
    \/ \E p \in Procs : RedisInitialize(p)
    \/ \E p \in Procs : RedisInitializeDone(p)
    \/ \E p \in Procs, c \in ClientCalls : MongoNotConnected(p, c)
    \/ \E p \in Procs, c \in ClientCalls : RedisNotConnected(p, c)
    \/ \E p \in Procs, state \in States, flowId \in ArgIds :
          MemorySave(p, state, flowId)
    \/ \E p \in Procs : MemorySaveCreate(p)
    \/ \E p \in Procs, flowId \in ArgIds \ {Undefined}, index \in Indexes :
          MemoryLoad(p, flowId, index)
    \/ \E p \in Procs, flowId \in ArgIds \ {Undefined} : MemoryGetStackSize(p, flowId)
    \/ \E p \in Procs, flowId \in ArgIds \ {Undefined} : MemoryHistory(p, flowId)
    \/ \E p \in Procs, state \in States, flowId \in ArgIds :
          FileSystemSave(p, state, flowId)
    \/ \E p \in Procs : FileSystemSaveResolve(p)
    \/ \E p \in Procs, flowId \in ArgIds \ {Undefined}, index \in Indexes :
          FileSystemLoad(p, flowId, index)
    \/ \E p \in Procs, flowId \in ArgIds \ {Undefined} : FileSystemGetStackSize(p, flowId)
    \/ \E p \in Procs, flowId \in ArgIds \ {Undefined} : FileSystemHistory(p, flowId)
    \/ \E p \in Procs, state \in States, flowId \in ArgIds :
          MongoSave(p, state, flowId)
    \/ \E p \in Procs : MongoGenerateFlowId(p)
    \/ \E p \in Procs : MongoSaveUpdate(p)
    \/ \E p \in Procs, flowId \in ArgIds \ {Undefined}, index \in Indexes :
          MongoLoad(p, flowId, index)
    \/ \E p \in Procs, flowId \in ArgIds \ {Undefined} : MongoGetStackSize(p, flowId)
    \/ \E p \in Procs, flowId \in ArgIds \ {Undefined} : MongoHistory(p, flowId)
    \/ \E p \in Procs, state \in States, flowId \in ArgIds :
          RedisSave(p, state, flowId)
    \/ \E p \in Procs : RedisGenerateFlowId(p)
    \/ \E p \in Procs : RedisSaveMarker(p)
    \/ \E p \in Procs : RedisSaveCreatedAt(p)
    \/ \E p \in Procs : RedisSaveUpdatedAt(p)
    \/ \E p \in Procs : RedisSavePush(p)
    \/ \E p \in Procs, flowId \in ArgIds \ {Undefined}, index \in Indexes :
          RedisLoad(p, flowId, index)
    \/ \E p \in Procs, flowId \in ArgIds \ {Undefined} : RedisGetStackSize(p, flowId)
    \/ \E p \in Procs, flowId \in ArgIds \ {Undefined} : RedisHistory(p, flowId)
    \/ \E p \in Procs : RedisHistoryRange(p)
    \/ Tick

\* the order in which the drivers are given the call of a round
DriverOrder == <<"memory", "fileSystem", "mongo", "redis">>

\* the driver after b in the order (the last driver stays)
NextDriver(b) ==
    LET k == CHOOSE j \in 1 .. Len(DriverOrder) : DriverOrder[j] = b
    IN  IF k = Len(DriverOrder) THEN b ELSE DriverOrder[k + 1]

\* the call d is the call c with the same arguments
SameCall(d, c) ==
    /\ d.op = c.op
    /\ d.state = c.state
    /\ d.flowId = c.flowId
    /\ d.index = c.index

\* a driver is given one call per round: the first driver any call, the others
\* the call the first was given
OneCallEach == pc[1] = "idle" => res[1] = NoDone

\* the drivers after the first are given the call of the round, and the
\* identifier generator yields for them the identifier it yielded for the first
Mirrors ==
    LET first == obs[DriverOrder[1]]
    IN  backend # DriverOrder[1] =>
          /\ call[1] # NoCall => SameCall(call[1], first)
          /\ res[1] # NoDone => SameCall(res[1], first)
          /\ (res[1].res.kind = "id" /\ first.res.kind = "id")
                => res[1].res.str = first.res.str

\* the driver in use has answered the call of the round: the answer is noted
\* and the next driver takes over
HandOver ==
    /\ lockstep
    /\ pc[1] = "idle"
    /\ res[1] # NoDone
    /\ obs[backend] = NoDone
    /\ obs' = [obs EXCEPT ![backend] = res[1]]
    /\ backend' = NextDriver(backend)
    /\ res' = [res EXCEPT ![1] = NoDone]
    /\ UNCHANGED <<concurrent, ticking, lockstep, separate, constructs, built, ready, dropped,
                   ncalls, now, storeVars, memOther, pc, call, loc, log, saved>>

\* all drivers have answered: the next round starts with the first driver
NewRound ==
    /\ lockstep
    /\ \A b \in Backends : obs[b] # NoDone
    /\ obs' = [b \in Backends |-> NoDone]
    /\ backend' = DriverOrder[1]
    /\ UNCHANGED <<concurrent, ticking, lockstep, separate, constructs, built, ready, dropped,
                   ncalls, now, storeVars, memOther, pc, call, loc, res, log, saved>>

NextAll ==
    \/ OneCallEach /\ Next /\ Mirrors'
    \/ HandOver
    \/ NewRound

Spec == Init /\ [][Next]_vars

SpecConc == InitConc /\ [][Next]_vars

\* the continuation of the call of p after an await or a timer
Continue(p) ==
    \/ MemorySaveCreate(p)
    \/ FileSystemSaveResolve(p)
    \/ MongoGenerateFlowId(p)
    \/ MongoSaveUpdate(p)
    \/ RedisInitializeDone(p)
    \/ RedisGenerateFlowId(p)
    \/ RedisSaveMarker(p)
    \/ RedisSaveCreatedAt(p)
    \/ RedisSaveUpdatedAt(p)
    \/ RedisSavePush(p)
    \/ RedisHistoryRange(p)

\* the event loop runs every continuation that is ready, time passes, and the
\* identifier generator is fair: a turn of a generateFlowId loop that draws an
\* identifier in use leaves everything as it is, so the turns that draw a free
\* identifier are the steps the loop is owed
Fairness ==
    /\ WF_vars(Tick)
    /\ \A p \in Procs : WF_vars(Continue(p))

\* a program that has just constructed its driver, on a backend that holds
\* nothing or holds the flows of earlier programs (a new MemoryStorage holds
\* nothing); it awaits each of its calls
InitFair ==
    /\ backend \in Backends
    /\ ready \in BOOLEAN
    /\ backend = "memory" => ready
    /\ InitCallers
    /\ constructs = TRUE
    /\ built = Constructor(backend, Client, Undefined)
    /\ ticking = FALSE
    /\ \E seed \in SeedFlows :
          /\ seed # <<>> => ready /\ backend \in SharedBackends
          /\ SeededStores(seed)
    /\ concurrent = FALSE
    /\ lockstep = FALSE
    /\ separate = FALSE

\* such a program under a fair scheduler and a fair identifier generator
SpecFair == InitFair /\ [][Next]_vars /\ Fairness

SpecTick == InitTick /\ [][Next]_vars

\* save(flowId, state) as the README calls it: the identifier is passed where
\* save takes the state, the state where save takes the identifier
SwappedSaveCall(flowId, state) ==
    [op |-> "saveSwapped", state |-> state, flowId |-> flowId, index |-> NoIndex]

\* MemoryStorage.save(flowId, state): the parameter flowId holds the number
\* state, which is not falsy (no snapshot of States is 0), so no flow is
\* created; this.state[state] is undefined, because the keys of this.state are
\* identifiers of the generator, and reading its stack throws a TypeError
MemorySaveSwapped(p, flowId, state) ==
    /\ backend = "memory"
    /\ CanInvoke(p)
    /\ state # 0
    /\ Settle(p, SwappedSaveCall(flowId, state), FALSE, ErrorRes(TYPE_ERROR))
    /\ UNCHANGED <<modeVars, now, storeVars, saved>>

\* the MemoryStorage program of the README
InitReadme ==
    /\ Init
    /\ backend = "memory"

NextReadme ==
    \/ \E p \in Procs : MemoryInitialize(p)
    \/ \E p \in Procs, state \in States, flowId \in ArgIds :
          MemorySave(p, state, flowId)
    \/ \E p \in Procs : MemorySaveCreate(p)
    \/ \E p \in Procs, flowId \in FlowIds, state \in States :
          MemorySaveSwapped(p, flowId, state)
    \/ \E p \in Procs, flowId \in ArgIds \ {Undefined}, index \in Indexes :
          MemoryLoad(p, flowId, index)
    \/ \E p \in Procs, flowId \in ArgIds \ {Undefined} : MemoryGetStackSize(p, flowId)
    \/ \E p \in Procs, flowId \in ArgIds \ {Undefined} : MemoryHistory(p, flowId)

SpecReadme == InitReadme /\ [][NextReadme]_vars

\* ------------------------------------------- a second MemoryStorage instance
\* generateFlowId of the second instance: the identifiers its loop can end with
OtherFreeIds == {id \in FlowIds : ~memOther[id].exists}

\* initialize() of the second instance
OtherInitialize(p) ==
    /\ backend = "memory"
    /\ CanInvoke(p)
    /\ Settle(p, InitializeCall, FALSE, VoidRes)
    /\ UNCHANGED <<baseVars, memOther, now, storeVars, saved>>

\* save(state, flowId?) of the second instance up to its first await
OtherSave(p, state, flowId) ==
    /\ backend = "memory"
    /\ CanInvoke(p)
    /\ UNCHANGED <<baseVars, now, storeVars, saved>>
    /\ IF Falsy(flowId)
       THEN /\ UNCHANGED memOther
            /\ \/ \E id \in OtherFreeIds :
                    Suspend(p, SaveCall(state, flowId),
                            [NoLoc EXCEPT !.flowId = id, !.isNew = TRUE],
                            "memCreate")
               \/ /\ OtherFreeIds = {}
                  /\ Suspend(p, SaveCall(state, flowId), NoLoc, "spin")
       ELSE IF ~memOther[flowId].exists
       THEN /\ UNCHANGED memOther
            /\ Settle(p, SaveCall(state, flowId), FALSE, ErrorRes(TYPE_ERROR))
       ELSE /\ memOther' = [memOther EXCEPT ![flowId] = MemoryPush(@, state, now)]
            /\ Settle(p, SaveCall(state, flowId), FALSE, IdRes(flowId))

\* save(state) of the second instance after "await this.generateFlowId()"
OtherSaveCreate(p) ==
    /\ backend = "memory"
    /\ ~Blocked
    /\ pc[p] = "memCreate"
    /\ LET id == loc[p].flowId
           fresh == [exists |-> TRUE, stack |-> <<>>,
                     createdAt |-> now, updatedAt |-> now]
       IN  /\ memOther' = [memOther EXCEPT
                              ![id] = MemoryPush(fresh, call[p].state, now)]
           /\ Settle(p, call[p], FALSE, IdRes(id))
    /\ UNCHANGED <<baseVars, now, storeVars, saved>>

\* what a read of the second instance returns: load, getStackSize, history
OtherReadResult(c) ==
    IF Falsy(c.flowId) THEN ErrorRes(E_NO_FLOW_ID)
    ELSE LET state == memOther[c.flowId]
             reversed == Reverse(state.stack)
             i == NormIndex(c.index)
         IN  CASE c.op = "load" ->
                    IF ~state.exists THEN NullRes
                    ELSE IF 0 <= i /\ i < Len(reversed) THEN ValueRes(reversed[i + 1])
                    ELSE UndefinedRes
               [] c.op = "getStackSize" ->
                    IF ~state.exists THEN SizeRes(0) ELSE SizeRes(Len(state.stack))
               [] c.op = "history" ->
                    IF ~state.exists THEN ListRes(<<>>) ELSE ListRes(reversed)

\* a read of the shared map, as if "state" were a static member of the class
OtherReadShared(p, c) ==
    /\ backend = "memory"
    /\ CanInvoke(p)
    /\ c.op \in Reads
    /\ UNCHANGED <<baseVars, memOther, now, storeVars, saved>>
    /\ Settle(p, c, FALSE,
              IF Falsy(c.flowId) THEN ErrorRes(E_NO_FLOW_ID)
              ELSE IF c.op = "load" THEN MemoryLoadResult(c.flowId, c.index)
              ELSE IF c.op = "getStackSize" THEN SizeRes(Len(memState[c.flowId].stack))
              ELSE ListRes(Reverse(memState[c.flowId].stack)))

\* load(flowId, index?), getStackSize(flowId), history(flowId) of the second
\* instance; load and history reverse the stack in place
OtherRead(p, c) ==
    /\ backend = "memory"
    /\ CanInvoke(p)
    /\ c.op \in Reads
    /\ UNCHANGED <<baseVars, now, storeVars, saved>>
    /\ IF Falsy(c.flowId) \/ c.op = "getStackSize"
       THEN UNCHANGED memOther
       ELSE memOther' = [memOther EXCEPT ![c.flowId].stack = Reverse(@)]
    /\ Settle(p, c, FALSE, OtherReadResult(c))

\* the reads callers make
ReadCalls ==
    {LoadCall(flowId, index) : flowId \in ArgIds \ {Undefined}, index \in Indexes}
    \cup {SizeCall(flowId) : flowId \in ArgIds \ {Undefined}}
    \cup {HistoryCall(flowId) : flowId \in ArgIds \ {Undefined}}

\* a program with two MemoryStorage instances: it calls through the first
\* (caller 1) and through the second (caller 2), awaiting each call
InitTwo ==
    /\ InitStores
    /\ Built
    /\ backend = "memory"
    /\ ticking = FALSE
    /\ concurrent = FALSE
    /\ lockstep = FALSE
    /\ separate = TRUE

NextTwo ==
    \/ MemoryInitialize(1)
    \/ \E state \in States, flowId \in ArgIds : MemorySave(1, state, flowId)
    \/ MemorySaveCreate(1)
    \/ \E flowId \in ArgIds \ {Undefined}, index \in Indexes :
          MemoryLoad(1, flowId, index)
    \/ \E flowId \in ArgIds \ {Undefined} : MemoryGetStackSize(1, flowId)
    \/ \E flowId \in ArgIds \ {Undefined} : MemoryHistory(1, flowId)
    \/ OtherInitialize(2)
    \/ \E state \in States, flowId \in ArgIds : OtherSave(2, state, flowId)
    \/ OtherSaveCreate(2)
    \/ \E c \in ReadCalls : OtherRead(2, c)

SpecTwo == InitTwo /\ [][NextTwo]_vars

\* the program has no driver yet
InitCtor ==
    /\ InitStores
    /\ constructs = TRUE
    /\ built = NotBuilt
    /\ ticking = FALSE
    /\ concurrent = FALSE
    /\ lockstep = FALSE
    /\ separate = FALSE

\* new XStorage(client, config): the one construction of the program
Construct(client, config) ==
    /\ built = NotBuilt
    /\ built' = Constructor(backend, client, config)
    /\ UNCHANGED <<backend, concurrent, ticking, lockstep, separate, constructs,
                   obs, ready, dropped, ncalls, now, storeVars, memOther,
                   pc, call, loc, res, log, saved>>

NextCtor ==
    \/ \E client \in {Undefined, Client}, config \in {Undefined, CustomConfig} :
          Construct(client, config)
    \/ Next

SpecCtor == InitCtor /\ [][NextCtor]_vars

\* a step of a driver that keeps its flows outside the instance
NextShared == backend \in SharedBackends /\ Next

SpecShared == InitShared /\ [][NextShared]_vars

SpecAll == InitAll /\ [][NextAll]_vars

\* the variables keep their shapes
TypeOK ==
    /\ backend \in Backends
    /\ concurrent \in BOOLEAN
    /\ ticking \in BOOLEAN
    /\ lockstep \in BOOLEAN
    /\ separate \in BOOLEAN
    /\ constructs \in BOOLEAN
    /\ built \in {NotBuilt} \cup
          {Constructor(b, c, g) : b \in Backends, c \in {Undefined, Client},
                                  g \in {Undefined, CustomConfig}}
    /\ ncalls \in 0 .. MaxCalls
    /\ now \in 0 .. MaxClock
    /\ \A id \in FlowIds : Len(saved[id]) <= Cardinality(Backends) * (MaxSaves + MaxCalls)
    /\ ready \in BOOLEAN
    /\ dropped \subseteq {E_NOT_FOUND, E_NOT_CONNECTED}
    /\ \A p \in Procs : pc[p] \in {"idle", "spin", "offline", "redisInit", "memCreate", "fsTimer",
            "mongoGen", "mongoUpdate", "redisGen", "redisMarker",
            "redisCreatedAt", "redisUpdatedAt", "redisPush", "redisRange"}

\* =================================================================== claims
\* the latest completed call of the single caller
Last == log[Len(log)]

\* the log holds exactly the calls of kinds ks, oldest first
LogIs(ks) == Len(log) = Len(ks) /\ \A k \in 1 .. Len(ks) : KindOf(log[k]) = ks[k]

\* the log starts with a creating save followed by a save on the created flow
TwoSaves == Len(log) >= 2 /\ KindOf(log[1]) = KCreate /\ KindOf(log[2]) = KAppend

\* every snapshot the backend holds for the flow was stored by a save that returned
AllReturned(id) == StoredSize(id) = Len(saved[id])

\* C1: on a fresh flow, after id = save(a) and save(b, id), the calls load(id),
\* load(id, 1), getStackSize(id), history(id), issued in this order with nothing
\* in between, return b, a, 2 and [b, a].
C1_ReadsAfterTwoSaves ==
    TwoSaves =>
        LET a == log[1].state
            b == log[2].state
        IN  /\ Len(log) >= 3 => log[3].res = ValueRes(b)
            /\ Len(log) >= 4 => log[4].res = ValueRes(a)
            /\ Len(log) >= 5 => log[5].res = SizeRes(2)
            /\ Len(log) >= 6 => log[6].res = ListRes(<<b, a>>)

\* C2: load(id) without index returns the snapshot of the most recent completed
\* save on the flow, whatever reads were made before.
C2_LoadReturnsLatestSave ==
    (/\ Len(log) >= 1
     /\ Last.op = "load" /\ Last.index = NoIndex /\ ~Falsy(Last.flowId)
     /\ saved[Last.flowId] # <<>>
     /\ AllReturned(Last.flowId))
        => Last.res = ValueRes(Head(saved[Last.flowId]))

\* C3 (filesystem, document-store and key-value drivers, explicit index >= 1):
\* load(id, index) with 0 <= index < getStackSize(id) returns the snapshot saved
\* (index+1)-th most recently; load(id, 1) on two snapshots returns the first.
C3_LoadByIndex ==
    (/\ Len(log) >= 1
     /\ backend \in {"fileSystem", "mongo", "redis"}
     /\ Last.op = "load" /\ ~Falsy(Last.flowId)
     /\ Last.index >= 1
     /\ AllReturned(Last.flowId)
     /\ Last.index < StoredSize(Last.flowId))
        => Last.res = ValueRes(saved[Last.flowId][Last.index + 1])

\* C4: history(id) returns every snapshot saved to the flow, each once, newest
\* first.
C4_HistoryNewestFirst ==
    (/\ Len(log) >= 1
     /\ Last.op = "history" /\ ~Falsy(Last.flowId)
     /\ AllReturned(Last.flowId))
        => Last.res = ListRes(saved[Last.flowId])

\* C5: a read repeated with no save in between returns what it returned before:
\* history(id) twice in a row, and load(id, i) twice in a row.
C5_ReadsRepeat ==
    (\/ LogIs(<<KHistory, KHistory>>)
     \/ \E i \in Indexes : LogIs(<<KLoad(i), KLoad(i)>>))
        => log[2].res = log[1].res

\* C6: a successful save(s, id) on an existing flow changes history(id) from H to
\* s followed by H, whatever reads were performed before the save.
C6_SavePrepends ==
    LogIs(<<KHistory, KAppend, KHistory>>)
        => log[3].res = ListRes(<<log[2].state>> \o log[1].res.seq)

\* C7 (filesystem driver): with no call in progress, getStackSize(id) is the
\* number of saves that completed on the flow, also for saves stamped with the
\* same millisecond.
C7_StackSizeCountsSaves ==
    (backend = "fileSystem" /\ \A p \in Procs : pc[p] = "idle")
        => \A id \in FlowIds : StoredSize(id) = Len(saved[id])

\* C8: save(x) without identifier returns a non-empty id of a flow whose only
\* snapshot is x: right afterwards getStackSize(id) is 1 and history(id) is [x].
C8_CreateMakesSingleton ==
    /\ (Len(log) >= 1 /\ KindOf(log[1]) = KCreate) => log[1].res.str # ""
    /\ LogIs(<<KCreate, KSize>>) => log[2].res = SizeRes(1)
    /\ LogIs(<<KCreate, KHistory>>) => log[2].res = ListRes(<<log[1].state>>)

\* C9: load(id) issued right after the creating id = save(x) returns x.
C9_LoadAfterCreate ==
    LogIs(<<KCreate, KLoad(NoIndex)>>) => log[2].res = ValueRes(log[1].state)

\* a creating save on the filesystem driver was followed by load(id), which
\* returned the parsed content of the file
C9_Witness ==
    /\ backend = "fileSystem"
    /\ LogIs(<<KCreate, KLoad(NoIndex)>>)
    /\ log[2].flowId = log[1].res.str
    /\ log[2].res = ValueRes(101)

\* the two callers each completed a save(x) without identifier issued on an
\* empty store
BothCreatedOnEmpty ==
    \A p \in Procs : res[p].op = "save" /\ Falsy(res[p].flowId) /\ res[p].onEmpty

\* C10: two save(x) calls without identifier running concurrently on an empty
\* store return two distinct identifiers, and each flow has getStackSize 1.
C10_ConcurrentCreatesDistinct ==
    BothCreatedOnEmpty =>
        /\ \A p \in Procs : res[p].res.kind = "id" /\ StoredSize(res[p].res.str) = 1
        /\ res[1].res.str # res[2].res.str

\* the backend holds nothing under the identifier: no map entry, no directory,
\* no document, none of the four keys
Absent(id) ==
    CASE backend = "memory" -> memState[id] = NoEntry
      [] backend = "fileSystem" -> fsDirs[id] = NoDir
      [] backend = "mongo" -> mongoDocs[id] = NoDoc
      [] backend = "redis" -> redisDb[id] = NoKeys

\* this step settles a call of caller p
Completes(p) ==
    /\ pc'[p] = "idle"
    /\ res'[p] # NoDone
    /\ pc[p] # "idle" \/ res'[p] # res[p]

\* what a read of a flow that does not exist returns
EmptyResult(op) ==
    CASE op = "load" -> NullRes
      [] op = "getStackSize" -> SizeRes(0)
      [] op = "history" -> ListRes(<<>>)

\* C11: on a backend that is ready, for a non-empty id that names no existing
\* flow, load(id) and load(id, 0) return null, getStackSize(id) returns 0 and
\* history(id) returns the empty sequence, and the flow still does not exist
\* afterwards.
C11_ReadsOfUnknownFlow ==
    [][\A p \in Procs, id \in FlowIds :
          (/\ Completes(p)
           /\ ready
           /\ res'[p].op \in {"load", "getStackSize", "history"}
           /\ res'[p].flowId = id
           /\ res'[p].index \in {NoIndex, 0}
           /\ Absent(id))
              => /\ res'[p].res = EmptyResult(res'[p].op)
                 /\ Absent(id)']_vars

\* the three reads of a flow that does not exist were made one after the other on
\* the key-value driver, next to a flow that exists
C11_Witness ==
    /\ backend = "redis"
    /\ Len(log) >= 1
    /\ Last.op = "history" /\ Last.flowId = "F2" /\ Last.res = ListRes(<<>>)
    /\ Absent("F2")
    /\ StoredSize("F1") = 2

\* C12: load, getStackSize and history called with an empty-string flowId fail
\* with E_NO_FLOW_ID before any access to the backend (the call settles in the
\* step that issues it) and leave all stored flows unchanged.
C12_ReadsRejectEmptyId ==
    [][\A p \in Procs :
          (/\ Completes(p)
           /\ res'[p].op \in {"load", "getStackSize", "history"}
           /\ res'[p].flowId = EmptyId)
              => /\ res'[p].res = ErrorRes(E_NO_FLOW_ID)
                 /\ pc[p] = "idle"
                 /\ UNCHANGED storeVars]_vars

\* on a document-store that holds a flow, history("") was rejected
C12_Witness ==
    /\ backend = "mongo"
    /\ Len(log) >= 1
    /\ Last.op = "history" /\ Last.flowId = EmptyId
    /\ Last.res = ErrorRes(E_NO_FLOW_ID)
    /\ ~StoreEmpty

\* C13: save(state, "") with an explicitly passed empty-string flowId fails with
\* E_NO_FLOW_ID and creates no flow.
C13_SaveRejectsEmptyId ==
    [][\A p \in Procs :
          (/\ Completes(p)
           /\ res'[p].op = "save"
           /\ res'[p].flowId = EmptyId)
              => /\ res'[p].res = ErrorRes(E_NO_FLOW_ID)
                 /\ UNCHANGED storeVars]_vars

\* C14: a successful save(state, flowId) on an existing flow (one that held the
\* snapshot of an earlier successful save) returns that same flowId.
C14_AppendReturnsFlowId ==
    (/\ Len(log) >= 1
     /\ KindOf(Last) = KAppend
     /\ StoredSize(Last.flowId) >= 2
     /\ AllReturned(Last.flowId))
        => Last.res = IdRes(Last.flowId)

\* what load(flowId, index) of the driver in use returns in the current state
LoadResult(flowId, index) ==
    CASE backend = "memory" -> MemoryLoadResult(flowId, index)
      [] backend = "fileSystem" -> FileSystemLoadResult(flowId, index)
      [] backend = "mongo" -> MongoLoadResult(flowId, index)
      [] backend = "redis" -> RedisLoadResult(flowId, index)

\* C15: in every store state and for every flowId (empty, unknown or existing),
\* load(flowId) returns the same result as load(flowId, 0).
C15_LoadDefaultsToZero ==
    \A flowId \in ArgIds \ {Undefined} :
        LoadResult(flowId, NoIndex) = LoadResult(flowId, 0)

\* load(id) without index was just answered from a flow of two different
\* snapshots, where the index matters
C15_Witness ==
    /\ backend = "redis"
    /\ Len(log) >= 1
    /\ Last.op = "load" /\ Last.index = NoIndex /\ ~Falsy(Last.flowId)
    /\ saved[Last.flowId] = <<101, 100>>
    /\ Last.res = ValueRes(101)
    /\ LoadResult(Last.flowId, 1) = ValueRes(100)

\* the first driver held the flow of the call, and the index of a load was
\* within its stack; a save without identifier needs neither
InContract(d) ==
    \/ d.op = "save" /\ Falsy(d.flowId)
    \/ /\ ~Falsy(d.flowId)
       /\ memState[d.flowId].exists
       /\ d.op = "load" => NormIndex(d.index) < Len(memState[d.flowId].stack)

\* C16: given the same sequence of save, load (index in range), getStackSize
\* and history calls, with the same generated identifiers, the four drivers
\* return the same result at every step.
C16_DriversAgree ==
    \A b1, b2 \in Backends :
        (obs[b1] # NoDone /\ obs[b2] # NoDone /\ InContract(obs[b1]))
            => obs[b1].res = obs[b2].res

\* the results that signal NotReady: the errors of ensureDatabaseIsReady()
NotReadyResults ==
    {ErrorRes(E_NOT_FOUND), ErrorRes(E_NOT_CONNECTED), ErrorRes(E_NOT_INITIALIZED)}

\* the call just completed is one the readiness rules are about: not a read
\* rejected for its empty flowId
Guarded(d) == d.op \in Reads => ~Falsy(d.flowId)

\* C17: save, load, getStackSize and history invoked on an instance whose
\* initialize() has not completed (here: the first call ever completed on the
\* instance is not initialize) fail with NotReady and leave the backend alone.
C17_UninitializedFails ==
    [][\A p \in Procs :
          (/\ Completes(p)
           /\ log = <<>>
           /\ res'[p].op # "initialize"
           /\ Guarded(res'[p]))
              => /\ res'[p].res \in NotReadyResults
                 /\ UNCHANGED storeVars]_vars

\* C18: while the backend is not ready (root directory missing, client not
\* connected), initialize and every public operation fail towards the caller
\* with the readiness error of the driver.
C18_NotReadyFails ==
    \A p \in Procs :
        (~ready /\ res[p] # NoDone /\ Guarded(res[p]))
            => res[p].res = ErrorRes(NotReadyCode)

\* the flow exists in the active backend: a map entry, a directory, a
\* document, a marker key
FlowExists(id) ==
    CASE backend = "memory" -> memState[id].exists
      [] backend = "fileSystem" -> fsDirs[id].exists
      [] backend = "mongo" -> mongoDocs[id].exists
      [] backend = "redis" -> redisDb[id].marker # Nil

\* C19: in every reachable state, the states between the steps of a save
\* included, a flow that exists in the backend has a non-empty stack.
C19_ExistingFlowHasStack ==
    \A id \in FlowIds : FlowExists(id) => StoredSize(id) >= 1

\* everything the active backend holds for flow id: what history(id) and
\* getStackSize(id) are computed from, and its timestamps
Flow(id) ==
    CASE backend = "memory" -> memState[id]
      [] backend = "fileSystem" -> fsDirs[id]
      [] backend = "mongo" -> mongoDocs[id]
      [] backend = "redis" -> redisDb[id]

\* this step is the first step of a call of caller p on flow A
InvokesOn(p, A) ==
    \/ \E state \in States :
          \/ MemorySave(p, state, A)
          \/ FileSystemSave(p, state, A)
          \/ MongoSave(p, state, A)
          \/ RedisSave(p, state, A)
    \/ \E index \in Indexes :
          \/ MemoryLoad(p, A, index)
          \/ FileSystemLoad(p, A, index)
          \/ MongoLoad(p, A, index)
          \/ RedisLoad(p, A, index)
    \/ MemoryGetStackSize(p, A) \/ MemoryHistory(p, A)
    \/ FileSystemGetStackSize(p, A) \/ FileSystemHistory(p, A)
    \/ MongoGetStackSize(p, A) \/ MongoHistory(p, A)
    \/ RedisGetStackSize(p, A) \/ RedisHistory(p, A)

\* this step is a later step of a call of caller p on flow A
ContinuesOn(p, A) ==
    /\ pc[p] # "idle"
    /\ call[p].flowId = A
    /\ \/ MemorySaveCreate(p)
       \/ FileSystemSaveResolve(p)
       \/ MongoGenerateFlowId(p) \/ MongoSaveUpdate(p)
       \/ RedisGenerateFlowId(p) \/ RedisSaveMarker(p)
       \/ RedisSaveCreatedAt(p) \/ RedisSaveUpdatedAt(p) \/ RedisSavePush(p)
       \/ RedisHistoryRange(p)

\* C20: a step of a save, load, getStackSize or history on an existing flow A,
\* alone or while calls on other flows are in flight, leaves what the backend
\* holds for every other existing flow B as it was.
C20_OtherFlowsUntouched ==
    [][\A p \in Procs : \A A, B \in FlowIds :
          (/\ A # B
           /\ FlowExists(A)
           /\ FlowExists(B)
           /\ InvokesOn(p, A) \/ ContinuesOn(p, A))
              => Flow(B)' = Flow(B)]_vars

\* C20 witness: on Redis, a save on F1 has completed and grown F1 while a save
\* of the other caller on F2 is in flight; F2 still holds its one snapshot.
C20_Witness ==
    /\ backend = "redis"
    /\ concurrent
    /\ res[1].op = "save" /\ res[1].flowId = "F1" /\ res[1].state = 101
    /\ redisDb["F1"].stack = <<JSONstringify(101), JSONstringify(SeedState(1))>>
    /\ pc[2] = "redisPush" /\ call[2].flowId = "F2"
    /\ redisDb["F2"].stack = <<JSONstringify(SeedState(2))>>

\* what history(id) of the driver in use returns in the current state, for a
\* non-empty id
HistoryResult(id) ==
    CASE backend = "memory" -> Reverse(memState[id].stack)
      [] backend = "fileSystem" ->
            LET stateFiles == Reverse(Readdir(DOMAIN fsDirs[id].files))
            IN  ParseAll([k \in 1 .. Len(stateFiles) |->
                             fsDirs[id].files[stateFiles[k]]])
      [] backend = "mongo" -> mongoDocs[id].stack
      [] backend = "redis" -> ParseAll(redisDb[id].stack)

\* the flow was created by a save without identifier: its map entry, its
\* directory, its document with createdAt, its marker key
WasCreated(id) ==
    CASE backend = "memory" -> memState[id].exists
      [] backend = "fileSystem" -> fsDirs[id].exists
      [] backend = "mongo" -> mongoDocs[id].hasCreatedAt
      [] backend = "redis" -> redisDb[id].marker # Nil

\* the only two calls made were saves on flow id, one of each caller, neither
\* awaiting the other, and both have settled
TwoAppends(id) ==
    /\ concurrent
    /\ ncalls = 2
    /\ \A p \in Procs : res[p].op = "save" /\ res[p].flowId = id

\* C21: save(a, id) and save(b, id) run concurrently on an existing flow of one
\* snapshot both succeed; afterwards history(id) is a and b, in either order,
\* ahead of the earlier snapshot, and getStackSize(id) has grown by 2.
C21_ConcurrentAppends ==
    \A id \in FlowIds :
        (WasCreated(id) /\ TwoAppends(id)) =>
            LET a == res[1].state
                b == res[2].state
                old == <<saved[id][Len(saved[id])]>>
            IN  /\ \A p \in Procs : res[p].res.kind \in {"id", "void"}
                /\ HistoryResult(id) \in {<<a, b>> \o old, <<b, a>> \o old}
                /\ StoredSize(id) = 3

\* C22: on the document-store and key-value drivers (client connected),
\* save(state, flowId) with a non-empty flowId under which nothing is stored
\* completes without error and leaves the flow with state as its only snapshot.
C22_AppendUpserts ==
    [][\A p \in Procs, id \in FlowIds, state \in States :
          (/\ backend \in {"mongo", "redis"}
           /\ ready
           /\ Completes(p)
           /\ res'[p].op = "save"
           /\ res'[p].flowId = id
           /\ res'[p].state = state
           /\ ~WasCreated(id)
           /\ StoredSize(id) = 0)
              => /\ res'[p].res.kind # "error"
                 /\ HistoryResult(id)' = <<state>>]_vars

\* in this step the uniqueness check of a creating save of caller p accepts id,
\* the identifier the save will write to and return
Accepts(p, id) ==
    /\ loc'[p].isNew
    /\ loc'[p].flowId = id
    /\ loc[p].flowId # id

\* C23: in sequential use, the identifier a save(x) without identifier accepts
\* and returns is never one under which the backend already holds data written
\* by an earlier save of either form.
C23_UniquenessCoversWrites ==
    [][\A p \in Procs, id \in FlowIds : Accepts(p, id) => Absent(id)]_vars

\* C24: on an existing flow, load(id, index) with index >= getStackSize(id)
\* returns null or fails with an error: it returns no stored snapshot and no
\* other value.
C24_LoadBeyondStack ==
    (/\ Len(log) >= 1
     /\ Last.op = "load" /\ ~Falsy(Last.flowId)
     /\ FlowExists(Last.flowId)
     /\ StoredSize(Last.flowId) >= 1
     /\ Last.index >= StoredSize(Last.flowId))
        => Last.res.kind \in {"null", "error"}

\* JSON.parse of a text written by JSON.stringify(Date.now())
ParseTime(text) == CHOOSE t \in 0 .. MaxClock + 1 : ToString(t) = text

\* the drivers that store createdAt and updatedAt
Stamping == {"memory", "mongo", "redis"}

\* the flow has a createdAt value / an updatedAt value
HasCreatedAt(id) ==
    CASE backend = "memory" -> memState[id].exists
      [] backend = "mongo" -> mongoDocs[id].hasCreatedAt
      [] backend = "redis" -> redisDb[id].createdAt # Nil
      [] OTHER -> FALSE
HasUpdatedAt(id) ==
    CASE backend = "memory" -> memState[id].exists
      [] backend = "mongo" -> mongoDocs[id].exists
      [] backend = "redis" -> redisDb[id].updatedAt # Nil
      [] OTHER -> FALSE

\* the stored instants, in milliseconds
CreatedAt(id) ==
    CASE backend = "memory" -> memState[id].createdAt
      [] backend = "mongo" -> mongoDocs[id].createdAt
      [] backend = "redis" -> ParseTime(redisDb[id].createdAt)
UpdatedAt(id) ==
    CASE backend = "memory" -> memState[id].updatedAt
      [] backend = "mongo" -> mongoDocs[id].updatedAt
      [] backend = "redis" -> ParseTime(redisDb[id].updatedAt)

\* C25: on the drivers that store timestamps, after every step a flow that has
\* stored snapshots has a createdAt value; a createdAt value once written is
\* never changed; updatedAt is never earlier than createdAt.
C25_Timestamps ==
    [][\A id \in FlowIds :
          backend \in Stamping =>
              /\ StoredSize(id)' >= 1 => HasCreatedAt(id)'
              /\ HasCreatedAt(id) =>
                    HasCreatedAt(id)' /\ CreatedAt(id)' = CreatedAt(id)
              /\ (HasCreatedAt(id)' /\ HasUpdatedAt(id)') =>
                    UpdatedAt(id)' >= CreatedAt(id)']_vars

\* C26: on the drivers that store timestamps, right after a creating save the
\* createdAt and the updatedAt of the created flow are the same instant, also
\* when the clock advances while the call is in progress.
C26_CreatedEqualsUpdated ==
    (/\ backend \in Stamping
     /\ Len(log) >= 1
     /\ KindOf(Last) = KCreate)
        => CreatedAt(Last.res.str) = UpdatedAt(Last.res.str)

\* the one call made through the instance of caller 1 was a save without
\* identifier that created flow id
CreatedThroughFirst(id) ==
    /\ separate
    /\ res[1].op = "save" /\ Falsy(res[1].flowId)
    /\ res[1].res = IdRes(id)
    /\ saved[id] # <<>>

\* what a read of flow id returns when it sees the snapshots of all the saves
\* that returned
ExpectedRead(d, id) ==
    CASE d.op = "load" -> ValueRes(IF d.index \in {NoIndex, 0} \/ backend # "redis"
                                   THEN Head(saved[id])
                                   ELSE saved[id][d.index + 1])
      [] d.op = "getStackSize" -> SizeRes(Len(saved[id]))
      [] d.op = "history" -> ListRes(saved[id])

\* C27 (filesystem, document-store and key-value drivers): a flow created
\* through one driver instance is read and appended to through another instance
\* bound to the same backend: a read through the second instance returns the
\* snapshots saved through either, and a save through the second instance
\* succeeds and puts its snapshot on top of them.
C27_FlowsBelongToBackend ==
    [][\A id \in FlowIds :
          (/\ CreatedThroughFirst(id)
           /\ Completes(2)
           /\ res'[2].flowId = id)
              => /\ (/\ res'[2].op \in Reads
                     /\ res'[2].op = "load" => res'[2].index < Len(saved[id]))
                       => res'[2].res = ExpectedRead(res'[2], id)
                 /\ res'[2].op = "save" =>
                       /\ res'[2].res.kind \in {"id", "void"}
                       /\ \A state \in States : res'[2].state = state =>
                             HistoryResult(id)' = <<state>> \o saved[id]]_vars

\* C27 witness: on the filesystem driver, a flow was created through the first
\* instance and a save with its identifier through the second instance has
\* returned; the directory holds both snapshots, the later one on top.
C27_Witness ==
    /\ backend = "fileSystem"
    /\ res[1].op = "save" /\ Falsy(res[1].flowId) /\ res[1].state = 100
    /\ res[1].res = IdRes("F1")
    /\ res[2].op = "save" /\ res[2].flowId = "F1" /\ res[2].state = 101
    /\ res[2].res = IdRes("F1")
    /\ separate
    /\ HistoryResult("F1") = <<101, 100>>

\* the name of the client argument of a driver that takes one
ClientArgument == IF backend = "mongo" THEN "mongoClient" ELSE "redisClient"

\* C28: constructing MongoStorage or RedisStorage without a client throws a
\* MissingArgument error that names the missing client, and no instance is
\* produced (no call is ever made on one); with a client the construction
\* succeeds, with or without a configuration argument.
C28_ConstructorNeedsClient ==
    [][\A client \in {Undefined, Client}, config \in {Undefined, CustomConfig} :
          (backend \in {"mongo", "redis"} /\ Construct(client, config)) =>
              /\ client = Undefined =>
                    /\ ~built'.made
                    /\ built'.error = MissingArgument(ClientArgument)
              /\ client # Undefined =>
                    /\ built'.made
                    /\ built'.error = ""]_vars
    /\ [](~built.made => ncalls = 0 /\ \A p \in Procs : pc[p] = "idle")

\* C28: a MongoStorage was constructed without client
C28_Witness ==
    /\ backend = "mongo"
    /\ ~built.made
    /\ built.error = MissingArgument("mongoClient")

\* C29: after flowId = save(100), the README's call save(flowId, 101) (the
\* identifier first, the new state second) appends 101 to the flow: the call
\* succeeds and the flow holds the new state ahead of its earlier snapshots, so
\* that load returns 101, getStackSize 2 and history [101, 100].
C29_ReadmeSaveAppends ==
    [][\A id \in FlowIds, state \in States :
          (/\ res[1].op = "save"
           /\ Falsy(res[1].flowId)
           /\ res[1].res = IdRes(id)
           /\ MemorySaveSwapped(1, id, state))
              => /\ res'[1].res.kind \in {"id", "void"}
                 /\ HistoryResult(id)' = <<state>> \o HistoryResult(id)
                 /\ StoredSize(id)' = StoredSize(id) + 1]_vars

\* the caller q made a creating save that returned the identifier id
Created(q, id) ==
    /\ res[q].op = "save"
    /\ Falsy(res[q].flowId)
    /\ res[q].res = IdRes(id)

\* the creating save of p, which accepted the identifier id, makes its last step
\* after the creating save of the other caller returned the same identifier
LaterCreation(p, id) ==
    /\ concurrent
    /\ loc[p].isNew
    /\ loc[p].flowId = id
    /\ Completes(p)
    /\ \E q \in Procs \ {p} : Created(q, id)

\* C30: when two concurrent creating saves accepted the same identifier, on the
\* Mongo and Redis drivers the later creation write overwrites the earlier: once
\* both are done the flow holds exactly one snapshot, that of the later write.
C30_LaterCreationOverwrites ==
    [][\A p \in Procs, id \in FlowIds :
          (backend \in {"mongo", "redis"} /\ LaterCreation(p, id))
              => /\ StoredSize(id)' = 1
                 /\ HistoryResult(id)' = <<call[p].state>>]_vars

\* the identifiers that pass the uniqueness check of the active driver
FreeIds ==
    CASE backend = "memory" -> MemoryFreeIds
      [] backend = "fileSystem" -> FileSystemFreeIds
      [] backend = "mongo" -> {id \in FlowIds : ~mongoDocs[id].exists}
      [] backend = "redis" -> {id \in FlowIds : redisDb[id].marker = Nil}

\* the save(x) of p is in its generateFlowId loop
Generating(p) == pc[p] \in {"spin", "mongoGen", "redisGen"}

\* the call of p is a save without identifier that has not settled
CreatingSave(p) ==
    /\ pc[p] # "idle"
    /\ call[p].op = "save"
    /\ Falsy(call[p].flowId)

Occurrences(s, v) == Cardinality({k \in 1 .. Len(s) : s[k] = v})

\* every snapshot of the sequence s is in the sequence t, as many times
Keeps(s, t) == \A v \in States : Occurrences(t, v) >= Occurrences(s, v)

\* C32: flows are never deleted and stacks never shrink: under any interleaving
\* of calls, no step lowers what getStackSize(id) returns or removes a snapshot
\* from what history(id) returns.
C32_NeverShrinks ==
    [][\A id \in FlowIds :
          /\ StoredSize(id)' >= StoredSize(id)
          /\ Keeps(HistoryResult(id), HistoryResult(id)')]_vars

\* C33: on the Mongo driver, a save that fails with E_SAVE_FAILED (creating or
\* appending) leaves the collection as it was before the call's query: no
\* document inserted, no stack replaced or extended.
C33_FailedSaveChangesNothing ==
    [][\A p \in Procs :
          (/\ backend = "mongo"
           /\ MongoSaveUpdate(p)
           /\ res'[p].res = ErrorRes(E_SAVE_FAILED))
              => mongoDocs' = mongoDocs]_vars

\* C34: on the memory and filesystem drivers, save(state, flowId) with a
\* non-empty flowId that names no existing flow fails with an error and changes
\* nothing: the flow is not created and every flow keeps its history.
C34_UnknownFlowSaveFails ==
    [][\A p \in Procs, state \in States, id \in FlowIds :
          (/\ backend \in {"memory", "fileSystem"}
           /\ ~FlowExists(id)
           /\ MemorySave(p, state, id) \/ FileSystemSave(p, state, id))
              => /\ pc'[p] = "idle"
                 /\ res'[p].res.kind = "error"
                 /\ ~FlowExists(id)'
                 /\ <<memState, fsDirs>>' = <<memState, fsDirs>>
                 /\ \A other \in FlowIds :
                       HistoryResult(other)' = HistoryResult(other)]_vars

\* C34: the memory driver rejected a save on an unknown identifier while
\* another flow holds a snapshot
C34_Witness ==
    /\ backend = "memory"
    /\ res[1].op = "save"
    /\ res[1].flowId = "F2"
    /\ res[1].res = ErrorRes(TYPE_ERROR)
    /\ ~FlowExists("F2")
    /\ HistoryResult("F1") = <<100>>

\* the sequence s is the oldest part of the sequence t (both newest first)
OldestPart(s, t) ==
    /\ Len(s) <= Len(t)
    /\ s = SubSeq(t, Len(t) - Len(s) + 1, Len(t))

\* C35: on the Redis driver, a history(id) that runs while saves on id are in
\* progress returns the history of the flow as it was at some moment: what it
\* returns is the stack before or after a save, never a sequence that has the
\* new snapshot and lacks the oldest one.
C35_HistoryIsConsistent ==
    [][\A p \in Procs :
          (/\ backend = "redis"
           /\ RedisHistoryRange(p)
           /\ res'[p].res.kind = "list")
              => OldestPart(res'[p].res.seq, HistoryResult(loc[p].flowId))]_vars

\* C36: on every backend and for every flow, when no operation is in progress
\* getStackSize(flowId) equals the length of history(flowId): a history that
\* returns, leaving no call in progress, has as many snapshots as getStackSize
\* returns then, and a getStackSize that returns gives the length of what
\* history returns then.
C36_SizeIsHistoryLength ==
    [][\A p \in Procs, id \in FlowIds :
          (/\ Completes(p)
           /\ res'[p].flowId = id
           /\ \A q \in Procs : pc'[q] = "idle")
              => /\ (res'[p].op = "history" /\ res'[p].res.kind = "list")
                        => Len(res'[p].res.seq) = StoredSize(id)'
                 /\ (res'[p].op = "getStackSize" /\ res'[p].res.kind = "size")
                        => res'[p].res.num = Len(HistoryResult(id)')]_vars

\* C36: the Redis driver returned a history of two snapshots
C36_Witness ==
    /\ backend = "redis"
    /\ \A q \in Procs : pc[q] = "idle"
    /\ res[1].op = "history"
    /\ res[1].res = ListRes(<<101, 100>>)
    /\ StoredSize(res[1].flowId) = 2

\* C37: on the filesystem driver used from one process, the uniqueness check,
\* the mkdir and the first file write of a creating save are one uninterrupted
\* step: a save(x) without identifier never accepts an identifier whose
\* directory exists, whatever calls are in progress, so concurrent creating
\* saves return distinct identifiers.
C37_FileSystemCreateIsAtomic ==
    /\ [][\A p \in Procs, state \in States, id \in FlowIds :
            (/\ backend = "fileSystem"
             /\ FileSystemSave(p, state, Undefined) \/ FileSystemSave(p, state, EmptyId)
             /\ loc'[p].isNew
             /\ loc'[p].flowId = id)
                => /\ ~fsDirs[id].exists
                   /\ fsDirs'[id].exists
                   /\ Cardinality(DOMAIN fsDirs'[id].files) = 1
                   /\ \A q \in Procs \ {p} : loc[q].isNew => loc[q].flowId # id]_vars
    /\ [](backend = "fileSystem" =>
            \A p, q \in Procs, id \in FlowIds :
                (p # q /\ Created(p, id)) => ~Created(q, id))

\* C37: two creating saves of the filesystem driver that did not await each
\* other have returned
C37_Witness ==
    /\ backend = "fileSystem"
    /\ concurrent
    /\ Created(1, "F1")
    /\ Created(2, "F2")
    /\ fsDirs["F1"].files = fsDirs["F2"].files

\* a step of a call on the first instance
FirstSteps ==
    \/ MemoryInitialize(1)
    \/ \E state \in States, flowId \in ArgIds : MemorySave(1, state, flowId)
    \/ MemorySaveCreate(1)
    \/ \E flowId \in ArgIds \ {Undefined}, index \in Indexes :
          MemoryLoad(1, flowId, index)
    \/ \E flowId \in ArgIds \ {Undefined} :
          MemoryGetStackSize(1, flowId) \/ MemoryHistory(1, flowId)

\* a step of a call on the second instance
OtherSteps ==
    \/ OtherInitialize(2)
    \/ \E state \in States, flowId \in ArgIds : OtherSave(2, state, flowId)
    \/ OtherSaveCreate(2)
    \/ \E c \in ReadCalls : OtherRead(2, c)

\* C38: two MemoryStorage instances share nothing. For an identifier the second
\* instance has created no flow for, its load returns null, getStackSize 0 and
\* history the empty sequence, also when the first instance holds a flow of
\* that identifier (and the same with the instances exchanged); and no step of
\* a call on one instance changes the flows of the other.
C38_InstancesShareNothing ==
    [][/\ FirstSteps => memOther' = memOther
       /\ OtherSteps => memState' = memState
       /\ \A id \in FlowIds :
             /\ (/\ Completes(2)
                 /\ res'[2].op \in Reads
                 /\ res'[2].flowId = id
                 /\ ~memOther[id].exists)
                    => res'[2].res = EmptyResult(res'[2].op)
             /\ (/\ Completes(1)
                 /\ res'[1].op \in Reads
                 /\ res'[1].flowId = id
                 /\ ~memState[id].exists)
                    => res'[1].res = EmptyResult(res'[1].op)]_vars

\* C38: the first instance created flow F1 and the second instance, asked for
\* its size, returned 0
C38_Witness ==
    /\ separate
    /\ backend = "memory"
    /\ Created(1, "F1")
    /\ memState["F1"].exists
    /\ res[2].op = "getStackSize"
    /\ res[2].flowId = "F1"
    /\ res[2].res = SizeRes(0)

====
